---------------------------- MODULE Spec2Model ----------------------------
(***************************************************************************)
(* Model of the PV + battery energy management system: the battery state   *)
(* model, the heuristic and QP block-energy controllers, the real-time     *)
(* control loop, and the tariff evaluator.                                 *)
(*                                                                         *)
(* The program computes on floats.  The model computes on exact rationals  *)
(* (records [n, d] in lowest terms, d > 0), so every division, efficiency  *)
(* factor and clamp is evaluated, not assumed.  Powers are in kW, energies *)
(* in kWh, times in minutes after an hour boundary.                        *)
(***************************************************************************)
EXTENDS Integers, Sequences, FiniteSets, TLC

-----------------------------------------------------------------------------
(* Exact rational arithmetic standing for the program's float arithmetic.  *)

Abs(x) == IF x < 0 THEN -x ELSE x

RECURSIVE Gcd(_, _)
Gcd(a, b) == IF b = 0 THEN a ELSE Gcd(b, a % b)

Frac(n, d) ==
    LET s == IF d < 0 THEN -1 ELSE 1
        g == Gcd(Abs(n), Abs(d))
    IN  [n |-> (s * n) \div g, d |-> (s * d) \div g]

Q(i) == [n |-> i, d |-> 1]

Zero == Q(0)

RAdd(a, b) == Frac(a.n * b.d + b.n * a.d, a.d * b.d)
RSub(a, b) == Frac(a.n * b.d - b.n * a.d, a.d * b.d)
RMul(a, b) == Frac(a.n * b.n, a.d * b.d)
RDiv(a, b) == Frac(a.n * b.d, a.d * b.n)
RNeg(a) == [n |-> -a.n, d |-> a.d]
RLt(a, b) == a.n * b.d < b.n * a.d
RLe(a, b) == a.n * b.d <= b.n * a.d
RMin(a, b) == IF RLt(b, a) THEN b ELSE a
RMax(a, b) == IF RLt(a, b) THEN b ELSE a
RAbs(a) == [n |-> Abs(a.n), d |-> a.d]
RSq(a) == RMul(a, a)

\* numpy.clip(x, lo, hi) = minimum(maximum(x, lo), hi)
np_clip(x, lo, hi) == RMin(RMax(x, lo), hi)


-----------------------------------------------------------------------------
(* Values the program gets from outside.  CONFIG is the constructor's      *)
(* argument and the three CSV files are read from disk, so the model draws *)
(* them from small sets.  dt_minutes_rtu is fixed at the configured 5.     *)

dt_minutes_rtu == 5

\* Number of loop iterations of one modelled day: day_end is
\* day_start + (MaxTicks - 1) * dt_minutes_rtu.
MaxTicks == 3

\* Optional[T]: None is the empty sequence, a present value v is <<v>>.
\* A float that may be NaN is held the same way, NaN being the empty sequence.
None == << >>
Some(v) == << v >>
NaN == << >>

DayAheadPowers == {4, 24}
FcValues == {0, 24}
ActValues == {24}

Half == Frac(1, 2)

\* CONFIG["battery"] values shared by every configuration of the model.
BaseBattery ==
    [energy_capacity_kwh |-> Q(12), soc_min_kwh |-> Q(2), soc_max_kwh |-> Q(10),
     p_discharge_max_kw |-> Q(24), p_charge_max_kw |-> Q(24),
     eta_charge |-> Half, eta_discharge |-> Half, soc_terminal_kwh |-> Q(6)]

-----------------------------------------------------------------------------
(* src/models/battery.py                                                   *)

\* dt_hours = dt_minutes / 60.0
dt_hours(dt_minutes) == Frac(dt_minutes, 60)

\* BatteryState.__init__
BatteryState_init(params) ==
    [energy_kwh |-> params.soc_init_kwh, last_p_kw |-> Zero]

\* Fault injection: a step that keeps the energy inside [soc_min, soc_max].
step_energy_clipped(params, energy_kwh, p_kw, dt_minutes) ==
    LET E_next ==
            IF RLe(Zero, p_kw)
            THEN RSub(energy_kwh, RMul(dt_hours(dt_minutes), RDiv(p_kw, params.eta_discharge)))
            ELSE RSub(energy_kwh, RMul(dt_hours(dt_minutes), RMul(p_kw, params.eta_charge)))
    IN  RMin(RMax(E_next, params.soc_min_kwh), params.soc_max_kwh)

\* BatteryState.step: the energy after one step at AC power p_kw.
step_energy(params, energy_kwh, p_kw, dt_minutes) ==
    IF RLe(Zero, p_kw)
    THEN RSub(energy_kwh, RMul(dt_hours(dt_minutes), RDiv(p_kw, params.eta_discharge)))
    ELSE RSub(energy_kwh, RMul(dt_hours(dt_minutes), RMul(p_kw, params.eta_charge)))

step(params, st, p_kw, dt_minutes) ==
    [energy_kwh |-> step_energy(params, st.energy_kwh, p_kw, dt_minutes),
     last_p_kw |-> p_kw]

\* The tolerance of within_bounds is 1e-6 = 1 / eps_inv.
eps_inv == 1000000

\* a <= 1e-6, for a rational a: a.n * eps_inv <= a.d, computed without the
\* large product.
LeEps(a) == a.n <= a.d \div eps_inv

\* BatteryState.within_bounds:
\*   (soc_min_kwh - 1e-6) <= energy_kwh <= (soc_max_kwh + 1e-6)
within_bounds(params, st) ==
    /\ LeEps(RSub(params.soc_min_kwh, st.energy_kwh))
    /\ LeEps(RSub(st.energy_kwh, params.soc_max_kwh))

-----------------------------------------------------------------------------
(* src/mpc/mpc_controller.py: BlockEnergyMPC, the heuristic controller.    *)
(* self is the record of the constructor's fields.                         *)

BlockEnergyMPC_init(dt_minutes, batt, ramp, soc_terminal_kwh, terminal_weight) ==
    [dt_hours |-> dt_hours(dt_minutes),
     p_dis_max |-> batt.p_discharge_max_kw, p_ch_max |-> batt.p_charge_max_kw,
     eta_c |-> batt.eta_charge, eta_d |-> batt.eta_discharge,
     ramp |-> ramp, soc_terminal_kwh |-> soc_terminal_kwh,
     terminal_weight |-> RMax(Zero, terminal_weight)]

\* Fault injection: the ramp band centred at 0 instead of last_p.
apply_ramp_about_zero(self, p_des, last_p) ==
    IF self.ramp = None
    THEN p_des
    ELSE np_clip(p_des, RNeg(self.ramp[1]), self.ramp[1])

\* Fault injection: the ramp band without its upper edge.
apply_ramp_no_upper(self, p_des, last_p) ==
    IF self.ramp = None
    THEN p_des
    ELSE RMax(p_des, RSub(last_p, self.ramp[1]))

apply_ramp(self, p_des, last_p) ==
    IF self.ramp = None
    THEN p_des
    ELSE np_clip(p_des, RSub(last_p, self.ramp[1]), RAdd(last_p, self.ramp[1]))

\* Fault injection: a setpoint beyond a power limit replaced by 0 instead of
\* the limit.
apply_power_limits_zero_outside(self, p) ==
    IF RLt(p, RNeg(self.p_ch_max)) \/ RLt(self.p_dis_max, p) THEN Zero ELSE p

\* Fault injection: the power clamp without its charging side.
apply_power_limits_no_lower(self, p) == RMin(p, self.p_dis_max)

apply_power_limits(self, p) == np_clip(p, RNeg(self.p_ch_max), self.p_dis_max)

\* Fault injection: the SOC clamp that only re-clips to the power limits.
apply_soc_bounds_power_only(self, E_kwh, p_kw, soc_min_kwh, soc_max_kwh) ==
    apply_power_limits(self, p_kw)

\* Fault injection: a setpoint that would cross a SOC bound is replaced by 0
\* instead of the largest setpoint that stays inside.
apply_soc_bounds_zero_on_violation(self, E_kwh, p_kw, soc_min_kwh, soc_max_kwh) ==
    LET dt_h == self.dt_hours
        E_next == IF RLe(Zero, p_kw)
                  THEN RSub(E_kwh, RMul(dt_h, RDiv(p_kw, self.eta_d)))
                  ELSE RSub(E_kwh, RMul(dt_h, RMul(p_kw, self.eta_c)))
    IN  IF RLt(E_next, soc_min_kwh) \/ RLt(soc_max_kwh, E_next)
        THEN Zero
        ELSE apply_power_limits(self, p_kw)

apply_soc_bounds(self, E_kwh, p_kw, soc_min_kwh, soc_max_kwh) ==
    LET dt_h == self.dt_hours
        p_adj ==
            IF RLe(Zero, p_kw)
            THEN LET E_next == RSub(E_kwh, RMul(dt_h, RDiv(p_kw, self.eta_d)))
                     p_allowed_dis ==
                         RMax(Zero, RDiv(RMul(RSub(E_kwh, soc_min_kwh), self.eta_d), dt_h))
                 IN  IF RLt(E_next, soc_min_kwh) THEN RMin(p_kw, p_allowed_dis) ELSE p_kw
            ELSE LET E_next == RSub(E_kwh, RMul(dt_h, RMul(p_kw, self.eta_c)))
                     p_allowed_ch ==
                         RMin(Zero, RDiv(RSub(E_kwh, soc_max_kwh), RMul(dt_h, self.eta_c)))
                 IN  IF RLt(soc_max_kwh, E_next) THEN RMax(p_kw, p_allowed_ch) ELSE p_kw
    IN  apply_power_limits(self, p_adj)

\* The block rows br are functions over the row positions 0..2.
Rows == 0 .. 2

RECURSIVE SumOver(_, _)
SumOver(f, S) ==
    IF S = {} THEN Zero
    ELSE LET x == CHOOSE y \in S : TRUE
         IN  RAdd(f[x], SumOver(f, S \ {x}))

\* Fault injection: the current substep counted as past.
past_rows_inclusive(br) == {i \in Rows : br.substeps[i] <= br.substeps[br.current_index]}

past_rows(br) == {i \in Rows : br.substeps[i] < br.substeps[br.current_index]}
future_rows(br) == Rows \ past_rows(br)

\* numpy.nan_to_num of one value
nan_to_num(x) == IF x = NaN THEN Zero ELSE x[1]

E_solar_past_kwh(self, br) ==
    LET solar_past_kw ==
            [i \in Rows |->
                IF br.actual_available[i] /\ i \in past_rows(br)
                THEN nan_to_num(br.solar_actual_kw[i])
                ELSE br.solar_forecast_kw[i]]
    IN  RMul(SumOver(solar_past_kw, past_rows(br)), self.dt_hours)

E_solar_future_kwh(self, br) ==
    RMul(SumOver(br.solar_forecast_kw, future_rows(br)), self.dt_hours)

\* Fault injection: the SOC error spread over remaining_steps_day without
\* the step length dt_h.
p_des_avg_kw_bias_without_dt(self, E_kwh, br, remaining_steps_day) ==
    LET E_bess_needed_kwh ==
            RSub(br.E_target_kwh[0],
                 RAdd(E_solar_past_kwh(self, br), E_solar_future_kwh(self, br)))
        p_even == RDiv(E_bess_needed_kwh,
                       RMul(Q(Cardinality(future_rows(br))), self.dt_hours))
    IN  IF /\ self.soc_terminal_kwh # None
           /\ RLt(Zero, self.terminal_weight)
           /\ remaining_steps_day # None
           /\ remaining_steps_day[1] # 0
        THEN RAdd(p_even,
                  RMul(self.terminal_weight,
                       RDiv(RSub(E_kwh, self.soc_terminal_kwh[1]),
                            Q(remaining_steps_day[1]))))
        ELSE p_even

\* Fault injection: the needed energy spread over the three substeps of the
\* block instead of the remaining ones.
p_des_avg_kw_whole_block(self, E_kwh, br, remaining_steps_day) ==
    LET E_bess_needed_kwh ==
            RSub(br.E_target_kwh[0],
                 RAdd(E_solar_past_kwh(self, br), E_solar_future_kwh(self, br)))
        p_even == RDiv(E_bess_needed_kwh, RMul(Q(Cardinality(Rows)), self.dt_hours))
    IN  IF /\ self.soc_terminal_kwh # None
           /\ RLt(Zero, self.terminal_weight)
           /\ remaining_steps_day # None
           /\ remaining_steps_day[1] # 0
        THEN RAdd(p_even,
                  RMul(self.terminal_weight,
                       RDiv(RSub(E_kwh, self.soc_terminal_kwh[1]),
                            RMul(Q(remaining_steps_day[1]), self.dt_hours))))
        ELSE p_even

\* The desired average power before ramp, power and SOC clamps.
p_des_avg_kw(self, E_kwh, br, remaining_steps_day) ==
    LET E_target_kwh == br.E_target_kwh[0]
        E_bess_needed_kwh ==
            RSub(E_target_kwh, RAdd(E_solar_past_kwh(self, br), E_solar_future_kwh(self, br)))
        remaining_steps_block == Cardinality(future_rows(br))
        p_even == RDiv(E_bess_needed_kwh, RMul(Q(remaining_steps_block), self.dt_hours))
    IN  IF /\ self.soc_terminal_kwh # None
           /\ RLt(Zero, self.terminal_weight)
           /\ remaining_steps_day # None
           /\ remaining_steps_day[1] # 0
        THEN LET E_soc_err_kwh == RSub(E_kwh, self.soc_terminal_kwh[1])
                 p_soc_bias_kw ==
                     RMul(self.terminal_weight,
                          RDiv(E_soc_err_kwh, RMul(Q(remaining_steps_day[1]), self.dt_hours)))
             IN  RAdd(p_even, p_soc_bias_kw)
        ELSE p_even

BlockEnergyMPC_compute_current_setpoint(self, E_kwh, soc_min_kwh, soc_max_kwh, last_p_kw, br, remaining_steps_day) ==
    LET p1 == apply_ramp(self, p_des_avg_kw(self, E_kwh, br, remaining_steps_day), last_p_kw)
        p2 == apply_power_limits(self, p1)
    IN  apply_soc_bounds(self, E_kwh, p2, soc_min_kwh, soc_max_kwh)

-----------------------------------------------------------------------------
(* src/mpc/qp_block_mpc.py: QPBlockEnergyMPC, the QP controller.           *)
(*                                                                         *)
(* The solver minimises over real vectors p_pos, p_neg.  The model         *)
(* minimises the same objective under the same constraints over the        *)
(* vectors whose entries are in PGrid, and lets the solver return any of   *)
(* the minimisers (the objective is convex but not strictly convex).       *)

PGrid == {0, 12, 24}

QPBlockEnergyMPC_init(dt_minutes, batt, ramp, w, soc_terminal_kwh) ==
    [dt_h |-> dt_hours(dt_minutes),
     p_dis_max |-> batt.p_discharge_max_kw, p_ch_max |-> batt.p_charge_max_kw,
     eta_c |-> batt.eta_charge, eta_d |-> batt.eta_discharge,
     ramp |-> ramp,
     w_track |-> w.w_track, w_mag |-> w.w_mag, w_smooth |-> w.w_smooth,
     w_block_energy |-> w.w_block_energy, w_terminal_soc |-> w.w_terminal_soc,
     soc_terminal_kwh |-> soc_terminal_kwh]

\* Rows of the block from the current one on, in order: position k of the
\* horizon is block row qp_first(br) + k.
qp_future_rows(br) == {i \in Rows : br.substeps[i] >= br.substeps[br.current_index]}
qp_R(br) == Cardinality(qp_future_rows(br))
qp_first(br) == CHOOSE i \in qp_future_rows(br) : \A j \in qp_future_rows(br) : i <= j

\* A solution x is the sequence of the pairs <<p_pos[k], p_neg[k]>>,
\* x[k + 1] being the pair of horizon position k.
qp_p(x, k) == Q(x[k + 1][1] - x[k + 1][2])

\* E_seq[k + 1] from E_seq[k] and the pair c of position k
qp_E_next(self, E_k, c) ==
    RAdd(RSub(E_k, RMul(self.dt_h, RDiv(Q(c[1]), self.eta_d))),
         RMul(self.dt_h, RMul(Q(c[2]), self.eta_c)))

\* The constraints on position k: power bounds, ramp against the previous
\* net power (last_p_kw at k = 0), SOC bounds on E_seq[k + 1].
qp_step_feasible(self, soc_min_kwh, soc_max_kwh, p_prev, E_k, c) ==
    /\ RLe(Q(c[1]), self.p_dis_max)
    /\ RLe(Q(c[2]), self.p_ch_max)
    /\ \/ self.ramp = None
       \/ RLe(RAbs(RSub(Q(c[1] - c[2]), p_prev)), self.ramp[1])
    /\ RLe(soc_min_kwh, qp_E_next(self, E_k, c))
    /\ RLe(qp_E_next(self, E_k, c), soc_max_kwh)

\* The objective terms of position k: tracking, magnitude, and (from the
\* second position on) smoothness.
qp_step_cost(self, k, solar_fc_k, target_pw, p_prev, c) ==
    LET pk == Q(c[1] - c[2])
    IN  RAdd(RAdd(RMul(self.w_track, RSq(RSub(RAdd(solar_fc_k, pk), target_pw))),
                  RMul(self.w_mag, RSq(pk))),
             IF k >= 1 THEN RMul(self.w_smooth, RSq(RSub(pk, p_prev))) ELSE Zero)

\* The objective terms of the whole horizon: block energy and terminal SOC.
qp_end_cost(self, q, sum_p, E_last) ==
    LET E_batt_future_kwh == RMul(self.dt_h, sum_p)
        o4 == RMul(self.w_block_energy,
                   RSq(RSub(RAdd(q.E_solar_future_kwh, E_batt_future_kwh), q.E_target_kwh)))
        o5 == IF /\ self.soc_terminal_kwh # None
                 /\ RLt(Zero, self.w_terminal_soc)
                 /\ q.remaining_steps_day # None
              THEN RMul(self.w_terminal_soc, RSq(RSub(E_last, self.soc_terminal_kwh[1])))
              ELSE Zero
    IN  RAdd(o4, o5)

RMinOf(S) == CHOOSE v \in S : \A w \in S : RLe(v, w)

QPInfeasible == [ok |-> FALSE, val |-> Zero, sols |-> {}]

\* The minimum of the objective over the feasible completions of the prefix
\* x (positions 0..k-1), and the completions that attain it.  a carries
\* E_seq[k], the previous net power, the sum of p and the cost so far.
RECURSIVE qp_search(_, _, _, _, _)
qp_search(self, q, k, x, a) ==
    IF k = q.R
    THEN [ok |-> TRUE, val |-> RAdd(a.cost, qp_end_cost(self, q, a.sum_p, a.E)),
          sols |-> {x}]
    ELSE LET sub ==
                 {qp_search(self, q, k + 1, Append(x, c),
                      [E |-> qp_E_next(self, a.E, c),
                       p_prev |-> Q(c[1] - c[2]),
                       sum_p |-> RAdd(a.sum_p, Q(c[1] - c[2])),
                       cost |-> RAdd(a.cost,
                                     qp_step_cost(self, k, q.solar_fc[k], q.target_pw,
                                                  a.p_prev, c))]) :
                    c \in {d \in PGrid \X PGrid :
                             qp_step_feasible(self, q.soc_min_kwh, q.soc_max_kwh,
                                              a.p_prev, a.E, d)}}
             feas == {r \in sub : r.ok}
         IN  IF feas = {} THEN QPInfeasible
             ELSE LET best == RMinOf({r.val : r \in feas})
                  IN  [ok |-> TRUE, val |-> best,
                       sols |-> UNION {r.sols : r \in {u \in feas : u.val = best}}]

\* prob.solve: the minimisers; empty when the problem is infeasible
\* (p.value is None).
qp_solve(self, E0_kwh, soc_min_kwh, soc_max_kwh, last_p_kw, br, remaining_steps_day, target_power_kw_block) ==
    LET R == qp_R(br)
        first == qp_first(br)
        solar_fc == [k \in 0 .. R - 1 |-> br.solar_forecast_kw[first + k]]
        q == [R |-> R, solar_fc |-> solar_fc, target_pw |-> target_power_kw_block,
              soc_min_kwh |-> soc_min_kwh, soc_max_kwh |-> soc_max_kwh,
              E_target_kwh |-> RMul(target_power_kw_block, Frac(1, 4)),
              E_solar_future_kwh |-> RMul(SumOver(solar_fc, 0 .. R - 1), self.dt_h),
              remaining_steps_day |-> remaining_steps_day]
    IN  qp_search(self, q, 0, << >>,
                  [E |-> E0_kwh, p_prev |-> last_p_kw, sum_p |-> Zero, cost |-> Zero]).sols

\* The values compute_current_setpoint may return: the first move of a
\* minimiser (with its p_pos[0] and p_neg[0]), or 0.0 when there is none.
QPBlockEnergyMPC_compute_current_setpoint(self, E0_kwh, soc_min_kwh, soc_max_kwh, last_p_kw, br, remaining_steps_day, target_power_kw_block) ==
    LET sols == qp_solve(self, E0_kwh, soc_min_kwh, soc_max_kwh, last_p_kw, br,
                         remaining_steps_day, target_power_kw_block)
    IN  IF sols = {}
        THEN {[p_kw |-> Zero, fallback |-> TRUE, p_pos |-> Zero, p_neg |-> Zero]}
        ELSE {[p_kw |-> qp_p(x, 0), fallback |-> FALSE,
               p_pos |-> Q(x[1][1]), p_neg |-> Q(x[1][2])] : x \in sols}

-----------------------------------------------------------------------------
(* src/io/data_loader.py and src/runtime/utils.py                          *)
(*                                                                         *)
(* A timestamp is a number of minutes.  The day-ahead frame df15 is a      *)
(* function from the timestamps of its rows to expected_power_kw.          *)

floor_to_15min(ts) == ts - (ts % 60) + (((ts % 60) \div 15) * 15)

\* dedup_and_clip_to_day: the rows inside [day_start, day_end]
dedup_and_clip_to_day(df, day_start, day_end) ==
    [ts \in {u \in DOMAIN df : day_start <= u /\ u <= day_end} |-> df[ts]]

MinOf(S) == CHOOSE x \in S : \A y \in S : x <= y
MaxOf(S) == CHOOSE x \in S : \A y \in S : y <= x

\* df.set_index("timestamp").asfreq("15min", method="pad"): a row every 15
\* minutes from the first to the last timestamp, each taking the value of
\* the latest row at or before it.
asfreq_15min_pad(df) ==
    LET lo == MinOf(DOMAIN df)
        hi == MaxOf(DOMAIN df)
        idx == {u \in lo .. hi : (u - lo) % 15 = 0}
    IN  [u \in idx |-> df[MaxOf({v \in DOMAIN df : v <= u})]]

\* forward_fill_day_ahead_to_5min: 5-minute rows from the first to the last
\* day-ahead timestamp, padded from the day-ahead row, clipped at 0.
forward_fill_day_ahead_to_5min(df15r, dt5_min) ==
    LET d == asfreq_15min_pad(df15r)
        lo == MinOf(DOMAIN d)
        hi == MaxOf(DOMAIN d)
        full5 == {u \in lo .. hi : (u - lo) % dt5_min = 0}
    IN  [u \in full5 |->
            LET v == d[MaxOf({w \in DOMAIN d : w <= u})]
            IN  IF v < 0 THEN 0 ELSE v]

-----------------------------------------------------------------------------
(* src/runtime/realtime_runner.py and online_test.py                       *)

VARIABLES
    CONFIG,     \* the configuration the runner was built from
    df15,       \* RealTimeEMS.df15: the day-ahead rows, clipped to the day
    state,      \* RealTimeEMS.state: BatteryState (energy_kwh, last_p_kw)
    t_now,      \* main: the timestamp of the next loop iteration
    out_csv,    \* the rows of online_mpc_results.csv
    results,    \* main: the rows tick returned
    ticks,      \* history: one record per loop iteration (locals of tick)
    tariff,     \* the tariff evaluator's last call (input and outcome)
    ctrl_call,  \* a direct call of the heuristic controller (arguments, outcome)
    step_call   \* direct calls of BatteryState.step (arguments, outcomes)

vars ==
    <<CONFIG, df15, state, t_now, out_csv, results, ticks, tariff, ctrl_call, step_call>>

loop_vars == <<CONFIG, df15, state, t_now, out_csv, results, ticks>>

\* RealTimeEMS.__init__: the controller object chosen by mpc.use_qp
RealTimeEMS_ctrl(cfg) ==
    IF cfg.use_qp
    THEN QPBlockEnergyMPC_init(dt_minutes_rtu, cfg.battery, cfg.ramp_rate_kw_per_step,
                               cfg.qp_weights, Some(cfg.battery.soc_terminal_kwh))
    ELSE BlockEnergyMPC_init(dt_minutes_rtu, cfg.battery, cfg.ramp_rate_kw_per_step,
                             Some(cfg.battery.soc_terminal_kwh),
                             cfg.terminal_soc_soft_weight)

\* The forecast rows tick keeps: those of the file (or, without a file, of
\* the forward-filled day-ahead) at t_now, t_now+5 and t_now+10.  fc is None
\* or <<f>> with f[k] the file's value at t_now + 5k.
df5f_short(fc, t) ==
    LET three_ts == {t + k * dt_minutes_rtu : k \in 0 .. 2}
    IN  IF fc = None
        THEN LET ff == forward_fill_day_ahead_to_5min(df15, dt_minutes_rtu)
             IN  [u \in three_ts \cap DOMAIN ff |-> ff[u]]
        ELSE [u \in three_ts |-> fc[1][(u - t) \div dt_minutes_rtu]]

\* Fault injection: the current index taken as the substep t_now falls
\* into, whether or not t_now is the timestamp of a row.
block_rows_floor_index(fc, act, t) ==
    LET block_start == floor_to_15min(t)
        ts == [j \in Rows |-> block_start + j * dt_minutes_rtu]
        f5 == df5f_short(fc, t)
        dfE == asfreq_15min_pad(df15)
        E_target_kwh == RMul(Q(dfE[block_start]), Frac(1, 4))
    IN  [timestamps |-> ts,
         substeps |-> [j \in Rows |-> ((ts[j] - block_start) * 60) \div (dt_minutes_rtu * 60)],
         E_target_kwh |-> [j \in Rows |-> E_target_kwh],
         solar_forecast_kw |->
             [j \in Rows |->
                 IF ts[j] \in DOMAIN f5 THEN RMax(Q(f5[ts[j]]), Zero) ELSE Zero],
         solar_actual_kw |->
             [j \in Rows |-> IF act # None /\ ts[j] = t THEN Some(Q(act[1])) ELSE NaN],
         actual_available |-> [j \in Rows |-> act # None /\ ts[j] = t],
         current_index |-> (t - block_start) \div dt_minutes_rtu]

\* The block frame handed to the controller.
block_rows(fc, act, t) ==
    LET block_start == floor_to_15min(t)
        ts == [j \in Rows |-> block_start + j * dt_minutes_rtu]
        f5 == df5f_short(fc, t)
        dfE == asfreq_15min_pad(df15)
        E_target_kwh == RMul(Q(dfE[block_start]), Frac(1, 4))
    IN  [timestamps |-> ts,
         substeps |-> [j \in Rows |-> ((ts[j] - block_start) * 60) \div (dt_minutes_rtu * 60)],
         E_target_kwh |-> [j \in Rows |-> E_target_kwh],
         solar_forecast_kw |->
             [j \in Rows |->
                 IF ts[j] \in DOMAIN f5 THEN RMax(Q(f5[ts[j]]), Zero) ELSE Zero],
         solar_actual_kw |->
             [j \in Rows |-> IF act # None /\ ts[j] = t THEN Some(Q(act[1])) ELSE NaN],
         actual_available |-> [j \in Rows |-> act # None /\ ts[j] = t],
         current_index |-> IF \E j \in Rows : ts[j] = t
                           THEN CHOOSE j \in Rows : ts[j] = t
                           ELSE -1]

remaining_steps_day(cfg, t) ==
    (((cfg.day_end - t) * 60) \div (dt_minutes_rtu * 60)) + 1

\* The exception tick raises before it reaches the controller, or "none".
tick_error_before_control(fc, act, fault, t) ==
    IF fault = "read" THEN "read"
    ELSE IF DOMAIN df15 = {} THEN "no_day_ahead"
    ELSE IF floor_to_15min(t) \notin DOMAIN asfreq_15min_pad(df15) THEN "no_day_ahead"
    ELSE IF block_rows(fc, act, t).current_index = -1 THEN "misaligned"
    ELSE "none"

\* The setpoints the selected controller may return (for the QP, with the
\* solver's p_pos[0], p_neg[0] and whether the 0.0 fallback was taken).
tick_setpoints(cfg, st, br, t) ==
    LET batt == cfg.battery
        ctrl == RealTimeEMS_ctrl(cfg)
        rem == remaining_steps_day(cfg, t)
        target_power_kw_block == RDiv(br.E_target_kwh[0], Frac(1, 4))
    IN  IF cfg.use_qp
        THEN QPBlockEnergyMPC_compute_current_setpoint(ctrl, st.energy_kwh,
                 batt.soc_min_kwh, batt.soc_max_kwh, st.last_p_kw, br, Some(rem),
                 target_power_kw_block)
        ELSE {[p_kw |-> BlockEnergyMPC_compute_current_setpoint(ctrl, st.energy_kwh,
                            batt.soc_min_kwh, batt.soc_max_kwh, st.last_p_kw, br,
                            Some(rem)),
               fallback |-> FALSE, p_pos |-> Zero, p_neg |-> Zero]}

\* The log row tick builds after the battery step.
tick_row(br, t, p_kw, st_after) ==
    LET i == br.current_index
        solar_now_kw == IF br.actual_available[i] /\ br.solar_actual_kw[i] # NaN
                        THEN br.solar_actual_kw[i][1]
                        ELSE br.solar_forecast_kw[i]
    IN  [timestamp |-> t,
         block_start |-> floor_to_15min(t),
         substep_in_block |-> br.substeps[i],
         E_target_kwh |-> br.E_target_kwh[0],
         target_power_kw |-> RDiv(br.E_target_kwh[0], Frac(1, 4)),
         solar_forecast_kw |-> br.solar_forecast_kw[i],
         solar_actual_kw |-> br.solar_actual_kw[i],
         actual_available |-> br.actual_available[i],
         battery_power_kw |-> p_kw,
         grid_output_kw |-> RAdd(solar_now_kw, p_kw),
         soc_kwh |-> st_after.energy_kwh]

\* Fault injection: an iteration whose tick failed before the controller
\* leaves t_now where it was, so that the timestamp is tried again.
LoopIteration_retry_failed(fc, act, fault) ==
    /\ t_now <= CONFIG.day_end
    /\ fault = "solver" => CONFIG.use_qp
    /\ LET err == tick_error_before_control(fc, act, fault, t_now)
           failed(e) ==
               /\ ticks' = Append(ticks,
                     [t |-> t_now, error |-> e, stepped |-> FALSE, before |-> state,
                      after |-> state, p_kw |-> None, br |-> None, sol |-> None])
               /\ UNCHANGED <<state, out_csv, results>>
       IN  IF err # "none" THEN failed(err)
           ELSE IF fault = "solver" THEN failed("solver")
           ELSE LET br == block_rows(fc, act, t_now)
                IN  \E sol \in tick_setpoints(CONFIG, state, br, t_now) :
                       LET p_kw == sol.p_kw
                           st2 == step(CONFIG.battery, state, p_kw, dt_minutes_rtu)
                           row == tick_row(br, t_now, p_kw, st2)
                       IN  /\ state' = st2
                           /\ IF fault = "log"
                              THEN /\ UNCHANGED <<out_csv, results>>
                                   /\ ticks' = Append(ticks,
                                         [t |-> t_now, error |-> "log", stepped |-> TRUE,
                                          before |-> state, after |-> st2,
                                          p_kw |-> Some(p_kw), br |-> Some(br),
                                          sol |-> Some(sol)])
                              ELSE /\ out_csv' = Append(out_csv, row)
                                   /\ results' = Append(results, row)
                                   /\ ticks' = Append(ticks,
                                         [t |-> t_now, error |-> "none", stepped |-> TRUE,
                                          before |-> state, after |-> st2,
                                          p_kw |-> Some(p_kw), br |-> Some(br),
                                          sol |-> Some(sol)])
    /\ t_now' = IF tick_error_before_control(fc, act, fault, t_now) # "none"
               THEN t_now
               ELSE t_now + dt_minutes_rtu
    /\ UNCHANGED <<CONFIG, df15, tariff, ctrl_call, step_call>>

\* One iteration of main's while loop: tick(t_now) inside try/except, then
\* t_now advances.  fc and act are the forecast and actual files of this
\* tick; fault is what the environment makes fail: "read" (a CSV that cannot
\* be parsed), "solver" (the solver call raises), "log" (the append to the
\* results file raises) or "none".
LoopIteration(fc, act, fault) ==
    /\ t_now <= CONFIG.day_end
    /\ fault = "solver" => CONFIG.use_qp
    /\ LET err == tick_error_before_control(fc, act, fault, t_now)
           failed(e) ==
               /\ ticks' = Append(ticks,
                     [t |-> t_now, error |-> e, stepped |-> FALSE, before |-> state,
                      after |-> state, p_kw |-> None, br |-> None, sol |-> None])
               /\ UNCHANGED <<state, out_csv, results>>
       IN  IF err # "none" THEN failed(err)
           ELSE IF fault = "solver" THEN failed("solver")
           ELSE LET br == block_rows(fc, act, t_now)
                IN  \E sol \in tick_setpoints(CONFIG, state, br, t_now) :
                       LET p_kw == sol.p_kw
                           st2 == step(CONFIG.battery, state, p_kw, dt_minutes_rtu)
                           row == tick_row(br, t_now, p_kw, st2)
                       IN  /\ state' = st2
                           /\ IF fault = "log"
                              THEN /\ UNCHANGED <<out_csv, results>>
                                   /\ ticks' = Append(ticks,
                                         [t |-> t_now, error |-> "log", stepped |-> TRUE,
                                          before |-> state, after |-> st2,
                                          p_kw |-> Some(p_kw), br |-> Some(br),
                                          sol |-> Some(sol)])
                              ELSE /\ out_csv' = Append(out_csv, row)
                                   /\ results' = Append(results, row)
                                   /\ ticks' = Append(ticks,
                                         [t |-> t_now, error |-> "none", stepped |-> TRUE,
                                          before |-> state, after |-> st2,
                                          p_kw |-> Some(p_kw), br |-> Some(br),
                                          sol |-> Some(sol)])
    /\ t_now' = t_now + dt_minutes_rtu
    /\ UNCHANGED <<CONFIG, df15, tariff, ctrl_call, step_call>>

\* ---- the inputs of the modelled runs ----

QPWeights ==
    [w_track |-> Q(1), w_mag |-> Frac(1, 10), w_smooth |-> Frac(1, 10),
     w_block_energy |-> Q(1), w_terminal_soc |-> Half]

MakeConfig(use_qp, ramp, tw, soc_init, day_start) ==
    [use_qp |-> use_qp,
     ramp_rate_kw_per_step |-> ramp,
     terminal_soc_soft_weight |-> tw,
     qp_weights |-> QPWeights,
     battery |-> [energy_capacity_kwh |-> BaseBattery.energy_capacity_kwh,
                  soc_init_kwh |-> soc_init,
                  soc_min_kwh |-> BaseBattery.soc_min_kwh,
                  soc_max_kwh |-> BaseBattery.soc_max_kwh,
                  p_discharge_max_kw |-> BaseBattery.p_discharge_max_kw,
                  p_charge_max_kw |-> BaseBattery.p_charge_max_kw,
                  eta_charge |-> BaseBattery.eta_charge,
                  eta_discharge |-> BaseBattery.eta_discharge,
                  soc_terminal_kwh |-> BaseBattery.soc_terminal_kwh],
     day_start |-> day_start,
     day_end |-> day_start + (MaxTicks - 1) * dt_minutes_rtu]

SocInits == {BaseBattery.soc_min_kwh, BaseBattery.soc_terminal_kwh, Q(8),
             BaseBattery.soc_max_kwh}
Ramps == {None, Some(Q(12))}

\* Day-ahead files: rows at 0, 15, 30, ... with powers from DayAheadPowers.
DayAheadFiles(maxRows) ==
    UNION {[{15 * i : i \in 0 .. n - 1} -> DayAheadPowers] : n \in 0 .. maxRows}

\* Actual files: no file, or the one row at t_now.
ActualFiles == {None} \cup {Some(a) : a \in ActValues}

TariffIdle == [call |-> None, detect |-> None, result |-> None]

\* RealTimeEMS.__init__ and the start of main
InitLoopVars(configs, dayAheadFiles) ==
    /\ CONFIG \in configs
    /\ \E raw \in dayAheadFiles :
          df15 = dedup_and_clip_to_day(raw, CONFIG.day_start, CONFIG.day_end)
    /\ state = BatteryState_init(CONFIG.battery)
    /\ t_now = CONFIG.day_start
    /\ out_csv = << >>
    /\ results = << >>
    /\ ticks = << >>

InitLoop(configs, dayAheadFiles) ==
    /\ InitLoopVars(configs, dayAheadFiles)
    /\ tariff = TariffIdle
    /\ ctrl_call = None
    /\ step_call = None

\* Forecast files: no file, or the three rows t_now, t_now+5, t_now+10
\* holding the same value.
ConstForecastFiles == {None} \cup {Some([k \in 0 .. 2 |-> v]) : v \in FcValues}

-----------------------------------------------------------------------------
(* SpecHeur: the loop under the heuristic controller, with every ramp      *)
(* setting, terminal weight and initial SOC, forecasts and actuals chosen  *)
(* anew at every tick, and no failing environment.                         *)

HeurConfigs ==
    {MakeConfig(FALSE, r, tw, s, 0) : r \in Ramps, tw \in {Zero, Half}, s \in SocInits}

InitHeur == InitLoop(HeurConfigs, DayAheadFiles(2))

NextHeur ==
    \E fc \in ConstForecastFiles, act \in ActualFiles : LoopIteration(fc, act, "none")

SpecHeur == InitHeur /\ [][NextHeur]_vars

(* SpecCtrl: the loop under either controller, a day-ahead file with both  *)
(* block rows, a forecast file chosen anew at every tick, no actual file,  *)
(* and no failing environment.                                             *)

CtrlConfigs ==
    {MakeConfig(FALSE, r, tw, s, 0) : r \in Ramps, tw \in {Zero, Half},
                                      s \in SocInits \ {BaseBattery.soc_terminal_kwh}}
    \cup {MakeConfig(TRUE, r, Half, s, 0) :
             r \in Ramps, s \in SocInits \ {BaseBattery.soc_terminal_kwh}}

InitCtrl == InitLoop(CtrlConfigs, [{0, 15} -> DayAheadPowers])

NextCtrl == \E fc \in ConstForecastFiles \ {None} : LoopIteration(fc, None, "none")

SpecCtrl == InitCtrl /\ [][NextCtrl]_vars

-----------------------------------------------------------------------------
(* Properties of the control loop.                                         *)

TickIdx == 1 .. Len(ticks)

\* The heuristic's setpoint of tick i before its SOC-bound step.
heur_before_soc_bounds(i) ==
    LET ctrl == RealTimeEMS_ctrl(CONFIG)
        tk == ticks[i]
        p_des == p_des_avg_kw(ctrl, tk.before.energy_kwh, tk.br[1],
                              Some(remaining_steps_day(CONFIG, tk.t)))
    IN  apply_power_limits(ctrl, apply_ramp(ctrl, p_des, tk.before.last_p_kw))

SocClampActive(i) ==
    /\ ~CONFIG.use_qp
    /\ ticks[i].stepped
    /\ heur_before_soc_bounds(i) # ticks[i].p_kw[1]

\* C2: under the heuristic controller, after every committed tick the
\* battery energy is within [soc_min - 1e-6, soc_max + 1e-6], whatever the
\* targets, forecasts, actuals, ramp setting and terminal weight.
C2_SocInvariantHeuristic ==
    ~CONFIG.use_qp =>
        /\ within_bounds(CONFIG.battery, state)
        /\ \A i \in TickIdx :
              ticks[i].stepped => within_bounds(CONFIG.battery, ticks[i].after)

\* C2 witness: a committed heuristic tick whose SOC clamp cut a discharge
\* and brought the battery from above soc_min exactly to soc_min.
C2_Witness ==
    \E i \in TickIdx :
        /\ SocClampActive(i)
        /\ ticks[i].after.energy_kwh = CONFIG.battery.soc_min_kwh
        /\ ticks[i].before.energy_kwh # CONFIG.battery.soc_min_kwh

PowerWithinLimits(p) ==
    /\ RLe(RNeg(CONFIG.battery.p_charge_max_kw), p)
    /\ RLe(p, CONFIG.battery.p_discharge_max_kw)

BlockCommitted(i) ==
    /\ i + 2 <= Len(ticks)
    /\ \A k \in Rows :
          /\ ticks[i + k].stepped
          /\ ticks[i + k].br[1].current_index = k
          /\ ticks[i + k].br[1].actual_available[k]

BlockActual(i, k) == ticks[i + k].br[1].solar_actual_kw[k][1]

\* Every forecast a tick of the block used equals the actual of its row.
ExactForecasts(i) ==
    \A j \in Rows, k \in Rows :
        k >= j => ticks[i + j].br[1].solar_forecast_kw[k] = BlockActual(i, k)

\* The even allocation E_bess_needed / (3 * dt_h) of the block.
EvenAllocation(i) ==
    LET dt_h == dt_hours(dt_minutes_rtu)
        E_solar == RMul(SumOver([k \in Rows |-> BlockActual(i, k)], Rows), dt_h)
    IN  RDiv(RSub(ticks[i].br[1].E_target_kwh[0], E_solar), RMul(Q(3), dt_h))

\* The power and SOC limits leave room for three steps at the even allocation.
EvenAllocationFits(i) ==
    LET p == EvenAllocation(i)
        b == CONFIG.battery
        E1 == step_energy(b, ticks[i].before.energy_kwh, p, dt_minutes_rtu)
        E2 == step_energy(b, E1, p, dt_minutes_rtu)
        E3 == step_energy(b, E2, p, dt_minutes_rtu)
    IN  /\ PowerWithinLimits(p)
        /\ RLe(b.soc_min_kwh, E3) /\ RLe(E3, b.soc_max_kwh)

DeliveredGridEnergy(i) ==
    RMul(SumOver([k \in Rows |-> RAdd(BlockActual(i, k), ticks[i + k].p_kw[1])], Rows),
         dt_hours(dt_minutes_rtu))

\* C1: with exact forecasts, no ramp limit, no terminal bias and limits wide
\* enough for the even allocation, the three setpoints of a block make the
\* delivered grid energy sum(dt_h * (solar + p_kw)) equal to E_target_kwh.
C1_BlockEnergyTracking ==
    \A i \in TickIdx :
        ( /\ ~CONFIG.use_qp
          /\ CONFIG.ramp_rate_kw_per_step = None
          /\ CONFIG.terminal_soc_soft_weight = Zero
          /\ BlockCommitted(i)
          /\ ExactForecasts(i)
          /\ EvenAllocationFits(i) )
        => DeliveredGridEnergy(i) = ticks[i].br[1].E_target_kwh[0]

\* C3: under the QP controller, after every committed tick (first move of a
\* solution, or the 0.0 fallback) the battery energy is within
\* [soc_min - 1e-6, soc_max + 1e-6], also when the tick starts at a bound.
C3_SocInvariantQP ==
    CONFIG.use_qp =>
        /\ within_bounds(CONFIG.battery, state)
        /\ \A i \in TickIdx :
              ticks[i].stepped => within_bounds(CONFIG.battery, ticks[i].after)

\* last_p_kw at tick i is the setpoint of the latest committed tick before
\* it, 0 when there is none.
LastCommittedBefore(i) ==
    LET prev == {j \in 1 .. i - 1 : ticks[j].stepped}
    IN  IF prev = {} THEN Zero ELSE ticks[MaxOf(prev)].p_kw[1]

RampRespected(i) ==
    /\ ticks[i].before.last_p_kw = LastCommittedBefore(i)
    /\ RLe(RAbs(RSub(ticks[i].p_kw[1], ticks[i].before.last_p_kw)),
           CONFIG.ramp_rate_kw_per_step[1])

\* C5 as stated: with a ramp limit configured, every committed tick of
\* either controller has |battery_power_kw - last_p_kw| <= ramp, also when
\* the SOC bound is active or the QP falls back to 0.0.
C5_RampInvariant ==
    \A i \in TickIdx :
        (ticks[i].stepped /\ CONFIG.ramp_rate_kw_per_step # None) => RampRespected(i)

\* C5 amended: with a ramp limit configured, a committed tick has
\* |battery_power_kw - last_p_kw| <= ramp when the heuristic's SOC-bound
\* step left the setpoint unchanged, or the QP returned a solution instead of
\* the 0.0 fallback.
C5_RampInvariantAmended ==
    \A i \in TickIdx :
        ( /\ ticks[i].stepped
          /\ CONFIG.ramp_rate_kw_per_step # None
          /\ ~SocClampActive(i)
          /\ ~ticks[i].sol[1].fallback )
        => RampRespected(i)

\* C5 witness: a committed heuristic tick, SOC clamp inactive, whose setpoint
\* the ramp limit held at last_p_kw + ramp below the desired power.
C5_Witness ==
    \E i \in TickIdx :
        /\ ticks[i].stepped
        /\ ~CONFIG.use_qp
        /\ CONFIG.ramp_rate_kw_per_step # None
        /\ ~SocClampActive(i)
        /\ ticks[i].before.last_p_kw # Zero
        /\ ticks[i].p_kw[1] =
              RAdd(ticks[i].before.last_p_kw, CONFIG.ramp_rate_kw_per_step[1])
        /\ RLt(ticks[i].p_kw[1],
               p_des_avg_kw(RealTimeEMS_ctrl(CONFIG), ticks[i].before.energy_kwh,
                            ticks[i].br[1], Some(remaining_steps_day(CONFIG, ticks[i].t))))

-----------------------------------------------------------------------------
(* SpecFault: the loop in an environment that can make any step of a tick  *)
(* fail.  One configuration per controller, and one whose day_start is not *)
(* on the 5-minute grid of the block rows (no row of a block is t_now).    *)

FaultConfigs ==
    {MakeConfig(FALSE, None, Zero, Q(8), 0), MakeConfig(TRUE, None, Half, Q(8), 0),
     MakeConfig(FALSE, None, Zero, Q(8), 12)}

Faults == {"none", "read", "solver", "log"}

InitFault == InitLoop(FaultConfigs, DayAheadFiles(2))

NextFault ==
    \E act \in {None, Some(24)}, fault \in Faults :
        LoopIteration(Some([k \in 0 .. 2 |-> 24]), act, fault)

SpecFault == InitFault /\ [][NextFault]_vars

\* C6: a tick that fails at any step (reading, missing day-ahead target,
\* current-index resolution, controller call, log-row emission) leaves
\* energy_kwh and last_p_kw as they were before the tick; a tick that stepped
\* the battery is never reported as failed.
C6_FailedTickLeavesState ==
    \A i \in TickIdx :
        ticks[i].error # "none" =>
            /\ ticks[i].after = ticks[i].before
            /\ ~ticks[i].stepped

\* The energy a step at p_kw takes out of the battery.
StepEnergyOut(p_kw) == RNeg(step_energy(CONFIG.battery, Zero, p_kw, dt_minutes_rtu))

SuccessfulTicks == {i \in TickIdx : ticks[i].error = "none"}

\* C7: the log has exactly one row per successfully committed tick, in
\* strictly increasing timestamp order, and each row's soc_kwh is
\* soc_init_kwh minus the energy changes of the successful ticks up to it,
\* failed ticks contributing nothing.
C7_LogReflectsCommits ==
    /\ Len(out_csv) = Cardinality(SuccessfulTicks)
    /\ \A j \in 1 .. Len(out_csv) - 1 : out_csv[j].timestamp < out_csv[j + 1].timestamp
    /\ \A j \in 1 .. Len(out_csv) :
          LET upto == {i \in SuccessfulTicks : ticks[i].t <= out_csv[j].timestamp}
          IN  out_csv[j].soc_kwh =
                  RSub(CONFIG.battery.soc_init_kwh,
                       SumOver([i \in upto |-> StepEnergyOut(ticks[i].p_kw[1])], upto))

-----------------------------------------------------------------------------
(* src/objective_function.py: the FiT revenue of one 15-minute block.      *)
(*                                                                         *)
(* A time of day is a number of seconds since midnight.  A raised          *)
(* ValueError is the record [ok |-> FALSE].                                *)

ADJUST_FACTOR == Frac(14, 15)
PENALTY_RATE == Frac(12, 100)

time(h, m, sec) == (h * 60 + m) * 60 + sec

in_range(t, start, end, inclusive_end) ==
    IF inclusive_end THEN t >= start /\ t <= end ELSE t >= start /\ t < end

ValueError == [ok |-> FALSE]

detect_time_window_for_aligned_blocks(t) ==
    IF in_range(t, time(9, 0, 0), time(16, 0, 0), TRUE)
    THEN [ok |-> TRUE, window_id |-> 1, adjusted |-> (t = time(16, 0, 0))]
    ELSE IF \/ (t >= time(0, 0, 0) /\ t <= time(6, 0, 0))
            \/ (t >= time(18, 1, 0) /\ t <= time(23, 59, 59))
    THEN [ok |-> TRUE, window_id |-> 2, adjusted |-> (t = time(18, 0, 0))]
    ELSE IF \/ in_range(t, time(6, 15, 0), time(9, 0, 0), TRUE)
            \/ in_range(t, time(16, 15, 0), time(18, 0, 0), TRUE)
    THEN [ok |-> TRUE, window_id |-> 3, adjusted |-> FALSE]
    ELSE ValueError

\* Step 2 of compute_payment_for_interval: the base of the window, or None
\* where the code raises ValueError.
base_for_window(window_id, params) ==
    IF window_id = 1 THEN params.contract_kwh
    ELSE IF window_id = 2 THEN params.egat_plan_kwh
    ELSE IF params.has_egat_plan_in_win3 = None THEN None
    ELSE IF params.has_egat_plan_in_win3[1] THEN params.egat_plan_kwh
    ELSE params.contract_kwh

\* Fault injection: step 3 without the cap at base.
payable_and_penalty_uncapped(e_use, base, fit_rate) ==
    [payable |-> e_use, shortfall |-> RMax(RSub(base, e_use), Zero),
     penalty |-> RMul(RMul(RMax(RSub(base, e_use), Zero), fit_rate), PENALTY_RATE)]

\* Fault injection: step 3 charging no penalty on the shortfall.
payable_and_penalty_no_penalty(e_use, base, fit_rate) ==
    IF RLt(base, e_use)
    THEN [payable |-> base, shortfall |-> Zero, penalty |-> Zero]
    ELSE [payable |-> e_use, shortfall |-> RMax(RSub(base, e_use), Zero),
          penalty |-> Zero]

\* Step 3 of compute_payment_for_interval
payable_and_penalty(e_use, base, fit_rate) ==
    IF RLt(base, e_use)
    THEN [payable |-> base, shortfall |-> Zero, penalty |-> Zero]
    ELSE LET shortfall == RMax(RSub(base, e_use), Zero)
         IN  [payable |-> e_use, shortfall |-> shortfall,
              penalty |-> RMul(RMul(shortfall, fit_rate), PENALTY_RATE)]

compute_payment_for_interval(params) ==
    LET w == detect_time_window_for_aligned_blocks(params.ts_start)
    IN  IF ~w.ok THEN ValueError
        ELSE LET e_use == RMul(params.e_read_kwh, IF w.adjusted THEN ADJUST_FACTOR ELSE Q(1))
                 base == base_for_window(w.window_id, params)
             IN  IF base = None THEN ValueError
                 ELSE LET r == payable_and_penalty(e_use, base[1], params.fit_rate)
                      IN  [ok |-> TRUE,
                           window_id |-> w.window_id,
                           adjusted_subinterval |-> w.adjusted,
                           e_use_kwh |-> e_use,
                           base_kwh |-> base[1],
                           payable_kwh |-> r.payable,
                           shortfall_kwh |-> r.shortfall,
                           penalty_currency |-> r.penalty,
                           payment_currency |->
                               RSub(RMul(r.payable, params.fit_rate), r.penalty)]

\* One call of the tariff evaluator on the input drawn at Init; detect is
\* what detect_time_window_for_aligned_blocks returned inside the call.
ComputePayment ==
    /\ tariff.call # None
    /\ tariff.result = None
    /\ tariff' = [call |-> tariff.call,
                  detect |-> Some(detect_time_window_for_aligned_blocks(tariff.call[1].ts_start)),
                  result |-> Some(compute_payment_for_interval(tariff.call[1]))]
    /\ UNCHANGED <<loop_vars, ctrl_call, step_call>>

\* ---- the inputs of the tariff runs ----

\* The starts of the 96 aligned blocks of a day.
AlignedBlockStarts == {time(0, 15 * k, 0) : k \in 0 .. 95}

\* Timestamps off the 15-minute grid: two in the gaps between the windows
\* and one inside a window.
UnalignedTimes == {time(6, 7, 0), time(18, 0, 30), time(9, 7, 0)}

EnergyReadings == {Q(0), Q(15), Q(30)}
BaseEnergies == {None, Some(Q(14)), Some(Q(29))}
FitRates == {Q(0), Q(5)}

IntervalInputs ==
    [ts_start : AlignedBlockStarts \cup UnalignedTimes,
     e_read_kwh : EnergyReadings,
     fit_rate : FitRates,
     contract_kwh : BaseEnergies,
     egat_plan_kwh : BaseEnergies,
     has_egat_plan_in_win3 : {None, Some(TRUE), Some(FALSE)}]

(* SpecTariff: one call of compute_payment_for_interval on each input.    *)
(* The control loop does not run.                                          *)

InitTariff ==
    /\ InitLoopVars({MakeConfig(FALSE, None, Zero, Q(8), 0)}, {[u \in {0} |-> 4]})
    /\ \E params \in IntervalInputs :
          tariff = [call |-> Some(params), detect |-> None, result |-> None]
    /\ ctrl_call = None
    /\ step_call = None

NextTariff == ComputePayment

SpecTariff == InitTariff /\ [][NextTariff]_vars

TariffDone == tariff.result # None
TariffOk == TariffDone /\ tariff.result[1].ok
TariffAligned == tariff.call # None /\ tariff.call[1].ts_start \in AlignedBlockStarts

\* C8: for every aligned block start, compute_payment_for_interval uses
\* e_use = e_metered * 14/15 and reports adjusted_subinterval = true if and
\* only if the time of day is exactly 06:00, 16:00 or 18:00; for every other
\* block e_use = e_metered.
C8_AdjustedBlockRule ==
    (TariffOk /\ TariffAligned) =>
        LET p == tariff.call[1]
            r == tariff.result[1]
        IN  IF p.ts_start \in {time(6, 0, 0), time(16, 0, 0), time(18, 0, 0)}
            THEN /\ r.e_use_kwh = RMul(p.e_read_kwh, Frac(14, 15))
                 /\ r.adjusted_subinterval
            ELSE /\ r.e_use_kwh = p.e_read_kwh
                 /\ ~r.adjusted_subinterval

\* C9: every aligned block start is classified W1 iff 09:00 <= tod <= 16:00,
\* W2 iff tod < 06:00 or tod >= 18:00, W3 iff 06:00 <= tod < 09:00 or
\* 16:00 < tod < 18:00.
C9_WindowClassification ==
    (TariffDone /\ TariffAligned) =>
        LET tod == tariff.call[1].ts_start
            w == tariff.detect[1]
        IN  /\ w.ok
            /\ w.window_id = 1 <=> (time(9, 0, 0) <= tod /\ tod <= time(16, 0, 0))
            /\ w.window_id = 2 <=> (tod < time(6, 0, 0) \/ tod >= time(18, 0, 0))
            /\ w.window_id = 3 <=> \/ (time(6, 0, 0) <= tod /\ tod < time(9, 0, 0))
                                   \/ (time(16, 0, 0) < tod /\ tod < time(18, 0, 0))

Capped(r, fit_rate) ==
    /\ r.payment_currency = RMul(r.base_kwh, fit_rate)
    /\ r.payable_kwh = r.base_kwh
    /\ r.shortfall_kwh = Zero
    /\ r.penalty_currency = Zero

\* C10 as stated: for every block, the adjusted boundary blocks included,
\* and every fit_rate >= 0, e_metered > base implies payment = base *
\* fit_rate, payable = base, shortfall = 0 and penalty = 0.
C10_CappedPayment ==
    (TariffOk /\ TariffAligned) =>
        LET p == tariff.call[1]
            r == tariff.result[1]
        IN  RLt(r.base_kwh, p.e_read_kwh) => Capped(r, p.fit_rate)

\* C10 amended: the cap is decided on the energy after the 14/15
\* adjustment: for every block and every fit_rate >= 0, e_use > base implies
\* payment = base * fit_rate, payable = base, shortfall = 0 and penalty = 0,
\* where e_use is e_metered on a block not reported as adjusted and
\* e_metered * 14/15 on a block reported as adjusted.
C10_CappedPaymentAmended ==
    (TariffOk /\ TariffAligned) =>
        LET p == tariff.call[1]
            r == tariff.result[1]
            e_use == IF r.adjusted_subinterval
                     THEN RMul(p.e_read_kwh, Frac(14, 15))
                     ELSE p.e_read_kwh
        IN  /\ r.e_use_kwh = e_use
            /\ RLt(r.base_kwh, e_use) => Capped(r, p.fit_rate)

\* C10 witness: a block reported as adjusted, with a positive rate, whose
\* adjusted energy is above the base and was capped.
C10_Witness ==
    /\ TariffOk
    /\ TariffAligned
    /\ tariff.result[1].adjusted_subinterval
    /\ RLt(Zero, tariff.call[1].fit_rate)
    /\ RLt(tariff.result[1].base_kwh, tariff.result[1].e_use_kwh)
    /\ tariff.result[1].payable_kwh = tariff.result[1].base_kwh

\* C11: whenever e_use <= base, payable = e_use, shortfall = base - e_use,
\* penalty = 0.12 * fit_rate * shortfall and payment = e_use * fit_rate -
\* 0.12 * fit_rate * (base - e_use); at e_use = base this is base * fit_rate,
\* the value of the capped branch.
C11_UnderDeliveryPayment ==
    TariffOk =>
        LET p == tariff.call[1]
            r == tariff.result[1]
            short == RSub(r.base_kwh, r.e_use_kwh)
            pen == RMul(RMul(Frac(12, 100), p.fit_rate), short)
        IN  RLe(r.e_use_kwh, r.base_kwh) =>
                /\ r.payable_kwh = r.e_use_kwh
                /\ r.shortfall_kwh = short
                /\ r.penalty_currency = pen
                /\ r.payment_currency = RSub(RMul(r.e_use_kwh, p.fit_rate), pen)
                /\ r.e_use_kwh = r.base_kwh =>
                       r.payment_currency = RMul(r.base_kwh, p.fit_rate)

\* C11 witness: a block delivered below its base at a positive rate, with a
\* positive penalty.
C11_Witness ==
    /\ TariffOk
    /\ RLt(tariff.result[1].e_use_kwh, tariff.result[1].base_kwh)
    /\ RLt(Zero, tariff.call[1].fit_rate)
    /\ RLt(Zero, tariff.result[1].penalty_currency)

-----------------------------------------------------------------------------
(* src/objective_function.py, batch helpers: one row of the table given   *)
(* to compute_revenue_rows.  A cell of a row is <<"value", v>>, or one of  *)
(* the three ways pandas hands over a missing cell: <<"none">> (the        *)
(* column is absent or holds None), <<"nan">> (a blank read from a CSV     *)
(* file is the float NaN) and <<"NA">> (pandas.NA of a nullable column).   *)

Present(cell) == cell[1] = "value"

\* pd.isna is true of None, NaN and pandas.NA
_opt_float(v) == IF Present(v) THEN Some(v[2]) ELSE None

\* bool(v) unless v is None or pandas.NA; bool(float("nan")) is True
_opt_bool(v) ==
    IF v[1] \in {"none", "NA"} THEN None
    ELSE IF v[1] = "nan" THEN Some(TRUE)
    ELSE Some(v[2])

_row_to_input(row) ==
    [ts_start |-> row.ts_start,
     e_read_kwh |-> row.e_read_kwh,
     fit_rate |-> row.fit_rate,
     contract_kwh |-> _opt_float(row.contract_kwh),
     egat_plan_kwh |-> _opt_float(row.egat_plan_kwh),
     has_egat_plan_in_win3 |-> _opt_bool(row.has_egat_plan_in_win3)]

\* The body of the loop of compute_revenue_rows on the row drawn at Init:
\* the row is converted and evaluated; a ValueError leaves the loop and no
\* output row is made.
ComputeRevenueRow ==
    /\ tariff.call = None
    /\ tariff.row # None
    /\ LET params == _row_to_input(tariff.row[1])
       IN  tariff' = [row |-> tariff.row,
                      call |-> Some(params),
                      detect |-> Some(detect_time_window_for_aligned_blocks(params.ts_start)),
                      result |-> Some(compute_payment_for_interval(params))]
    /\ UNCHANGED <<loop_vars, ctrl_call, step_call>>

MissingCells == {<<"none">>, <<"nan">>, <<"NA">>}

RevenueRows ==
    [ts_start : AlignedBlockStarts,
     e_read_kwh : {Q(15)},
     fit_rate : {Q(5)},
     contract_kwh : {<<"none">>, <<"nan">>, <<"value", Q(14)>>},
     egat_plan_kwh : {<<"none">>, <<"nan">>, <<"value", Q(29)>>},
     has_egat_plan_in_win3 : MissingCells \cup {<<"value", TRUE>>, <<"value", FALSE>>}]

(* SpecRevenueRows: compute_revenue_rows on one row of each kind.          *)

InitRevenueRows ==
    /\ InitLoopVars({MakeConfig(FALSE, None, Zero, Q(8), 0)}, {[u \in {0} |-> 4]})
    /\ \E row \in RevenueRows :
          tariff = [row |-> Some(row), call |-> None, detect |-> None, result |-> None]
    /\ ctrl_call = None
    /\ step_call = None

NextRevenueRows == ComputeRevenueRow

SpecRevenueRows == InitRevenueRows /\ [][NextRevenueRows]_vars

\* The cell of the row that the window of the block requires: the contract
\* in W1, the EGAT plan in W2; in W3 the flag has_egat_plan_in_win3 and, once
\* the flag is given, the EGAT plan if it is true and the contract if not.
RequiredCell(window_id, row) ==
    IF window_id = 1 THEN row.contract_kwh
    ELSE IF window_id = 2 THEN row.egat_plan_kwh
    ELSE IF ~Present(row.has_egat_plan_in_win3) THEN row.has_egat_plan_in_win3
    ELSE IF row.has_egat_plan_in_win3[2] THEN row.egat_plan_kwh
    ELSE row.contract_kwh

\* C12: base = contract_kwh in W1, egat_plan_kwh in W2, and in W3
\* egat_plan_kwh if has_egat_plan_in_win3 else contract_kwh; when the input
\* required for the block's window is missing the evaluator returns an error
\* and no result, and when it is present the evaluator returns a result with
\* that base, whatever other inputs are missing.
C12_BaseSelection ==
    (TariffDone /\ tariff.detect[1].ok) =>
        LET required == RequiredCell(tariff.detect[1].window_id, tariff.row[1])
            r == tariff.result[1]
        IN  IF Present(required)
            THEN r.ok /\ r.base_kwh = required[2]
            ELSE ~r.ok

\* C13: for every timestamp whose time of day is not on the 15-minute grid
\* (:00/:15/:30/:45 with zero seconds), the evaluator returns an error and no
\* payment result, whatever window the time would fall in.
C13_MisalignedRejected ==
    (TariffDone /\ ~TariffAligned) => ~tariff.result[1].ok

\* Ticks i, i+1, i+2 are the committed ticks of one block in which every
\* forecast and every actual is the same power, the block target is the
\* energy of that power over the 15 minutes, and the battery starts at
\* soc_terminal.
PerfectForecastBlock(i) ==
    /\ BlockCommitted(i)
    /\ ExactForecasts(i)
    /\ \A k \in Rows : BlockActual(i, k) = BlockActual(i, 0)
    /\ ticks[i].br[1].E_target_kwh[0] = RMul(BlockActual(i, 0), Frac(1, 4))
    /\ ticks[i].before.energy_kwh = CONFIG.battery.soc_terminal_kwh

\* C14: in the perfect-forecast scenario (forecast = actual = constant at the
\* three ticks of a block, E_target equal to the solar energy of the block,
\* SOC starting at soc_terminal) the controller yields battery_power_kw = 0
\* at each of the three ticks and the SOC is unchanged at the end of the
\* block.
C14_PerfectForecastIdle ==
    \A i \in TickIdx :
        PerfectForecastBlock(i) =>
            /\ \A k \in Rows : ticks[i + k].p_kw[1] = Zero
            /\ ticks[i + 2].after.energy_kwh = ticks[i].before.energy_kwh

\* Ticks i and i+1 are the committed ticks at block_start and block_start+5
\* of a block whose forecast is the same power at every substep and whose
\* target needs the battery to discharge, tick i discharges, the SOC bound
\* cuts neither setpoint, and the actual read by tick i+1 is above its
\* forecast.
OverperformanceBlock(i) ==
    /\ i + 1 <= Len(ticks)
    /\ ticks[i].stepped /\ RLt(Zero, ticks[i].p_kw[1])
    /\ ticks[i + 1].stepped
    /\ ~SocClampActive(i) /\ ~SocClampActive(i + 1)
    /\ \A k \in {0, 1} :
          /\ ticks[i + k].stepped
          /\ ticks[i + k].br[1].current_index = k
          /\ \A j \in Rows :
                j >= k => ticks[i + k].br[1].solar_forecast_kw[j] =
                              ticks[i].br[1].solar_forecast_kw[0]
    /\ RLt(RMul(ticks[i].br[1].solar_forecast_kw[0], Frac(1, 4)),
           ticks[i].br[1].E_target_kwh[0])
    /\ ticks[i + 1].br[1].actual_available[1]
    /\ RLt(ticks[i + 1].br[1].solar_forecast_kw[1],
           ticks[i + 1].br[1].solar_actual_kw[1][1])

\* C15: in a block with a constant forecast whose target requires battery
\* discharge, when the actual at block_start+5 is above its forecast, the
\* setpoint chosen by the tick at block_start+5 is a smaller discharge than
\* the setpoint chosen by the tick at block_start.
C15_OverperformanceReducesDischarge ==
    \A i \in TickIdx :
        OverperformanceBlock(i) => RLt(ticks[i + 1].p_kw[1], ticks[i].p_kw[1])

\* C16: with w_mag > 0, the QP minimizer never has p_pos > 0 and p_neg > 0 at
\* the same step, for every battery state within bounds (SOC at soc_max
\* included), every forecast and target: the first move of every solution
\* a committed QP tick applied has p_pos = 0 or p_neg = 0.
C16_QPComplementarity ==
    \A i \in TickIdx :
        ( /\ CONFIG.use_qp
          /\ RLt(Zero, CONFIG.qp_weights.w_mag)
          /\ ticks[i].stepped
          /\ ~ticks[i].sol[1].fallback )
        => (ticks[i].sol[1].p_pos = Zero \/ ticks[i].sol[1].p_neg = Zero)

\* The data columns of a log row; a fallback marker would be a column beyond
\* them.
TickColumns ==
    {"timestamp", "block_start", "substep_in_block", "E_target_kwh",
     "target_power_kw", "solar_forecast_kw", "solar_actual_kw", "actual_available",
     "battery_power_kw", "grid_output_kw", "soc_kwh"}

\* Tick i is a QP tick whose solver call raised or returned no solution.
QPFailed(i) ==
    /\ CONFIG.use_qp
    /\ \/ ticks[i].error = "solver"
       \/ ticks[i].sol # None /\ ticks[i].sol[1].fallback

\* C17: whenever the QP is infeasible or the solver fails (no solution value,
\* or the solver call itself raises), the controller returns p_kw = 0.0 and
\* the tick still commits step(0, 5): energy_kwh is unchanged, last_p_kw
\* becomes 0, and a log row carrying a fallback marker is emitted.
C17_QPFailureFallback ==
    \A i \in TickIdx :
        QPFailed(i) =>
            /\ ticks[i].stepped
            /\ ticks[i].p_kw = Some(Zero)
            /\ ticks[i].after.energy_kwh = ticks[i].before.energy_kwh
            /\ ticks[i].after.last_p_kw = Zero
            /\ \E j \in 1 .. Len(out_csv) :
                  /\ out_csv[j].timestamp = ticks[i].t
                  /\ DOMAIN out_csv[j] \ TickColumns # {}

-----------------------------------------------------------------------------
(* SpecSetpoint: direct calls of BlockEnergyMPC.compute_current_setpoint,  *)
(* whose remaining_steps_day is an Optional[int] of the caller's choosing  *)
(* (tick passes int((day_end - t_now) // 5 min) + 1, which is 0 at         *)
(* day_end + 5 min and negative after that).                               *)

\* The battery of src/config.py
ConfigBattery ==
    [energy_capacity_kwh |-> Q(100000), soc_min_kwh |-> Q(10000),
     soc_max_kwh |-> Q(90000), p_discharge_max_kw |-> Q(25000),
     p_charge_max_kw |-> Q(25000), eta_charge |-> Frac(19, 20),
     eta_discharge |-> Frac(19, 20), soc_terminal_kwh |-> Q(50000)]

\* The block_rows of a block with target power target_kw, forecast fc_kw at
\* every substep and no actuals, seen from substep idx.
ConstBlockRows(target_kw, fc_kw, idx) ==
    [timestamps |-> [j \in Rows |-> j * dt_minutes_rtu],
     substeps |-> [j \in Rows |-> j],
     E_target_kwh |-> [j \in Rows |-> RMul(Q(target_kw), Frac(1, 4))],
     solar_forecast_kw |-> [j \in Rows |-> Q(fc_kw)],
     solar_actual_kw |-> [j \in Rows |-> NaN],
     actual_available |-> [j \in Rows |-> FALSE],
     current_index |-> idx]

RemainingStepsArgs == {None, Some(-1), Some(0), Some(1), Some(3)}

SetpointCall(batt, soc_terminal, tw, E_kwh, br, rem) ==
    [self |-> BlockEnergyMPC_init(dt_minutes_rtu, batt, None, soc_terminal, tw),
     E_kwh |-> E_kwh,
     soc_min_kwh |-> batt.soc_min_kwh,
     soc_max_kwh |-> batt.soc_max_kwh,
     last_p_kw |-> Zero,
     block_rows |-> br,
     remaining_steps_day |-> rem,
     p_des_avg_kw |-> None,
     p_kw |-> None]

\* A call with a ramp limit and a previous setpoint, without terminal bias.
RampedSetpointCall(batt, ramp, last_p, E_kwh, br) ==
    [self |-> BlockEnergyMPC_init(dt_minutes_rtu, batt, Some(ramp), None, Zero),
     E_kwh |-> E_kwh,
     soc_min_kwh |-> batt.soc_min_kwh,
     soc_max_kwh |-> batt.soc_max_kwh,
     last_p_kw |-> last_p,
     block_rows |-> br,
     remaining_steps_day |-> Some(3),
     p_des_avg_kw |-> None,
     p_kw |-> None]

\* Ramp-limited calls: on the small battery from every previous setpoint,
\* and from rest on the battery and ramp of src/config.py with a desired
\* power of 10,000 kW and of 25,000 kW.
RampedSetpointCalls ==
    {RampedSetpointCall(BaseBattery, Q(12), Q(lp), E, ConstBlockRows(T, fc, idx)) :
        lp \in {-12, 0, 12}, E \in {Q(2), Q(6), Q(10)}, T \in DayAheadPowers,
        fc \in FcValues, idx \in Rows}
    \cup {RampedSetpointCall(ConfigBattery, Q(2000), Zero, Q(50000),
                             ConstBlockRows(T, 30000, 0)) : T \in {40000, 55000}}

\* Ramp-limited calls whose previous setpoint is at a power limit, or
\* beyond it.
LimitEdgeCalls ==
    {RampedSetpointCall(BaseBattery, Q(12), Q(lp), E, ConstBlockRows(T, fc, idx)) :
        lp \in {-48, -24, 24, 48}, E \in {Q(6), Q(10)}, T \in DayAheadPowers,
        fc \in FcValues, idx \in Rows}

\* Calls whose SOC bound cuts the setpoint: the small battery one step short
\* of a bound, and the battery of src/config.py at soc_min with forecast 0
\* and E_target = 1000 kWh.
SocClampedCalls ==
    {SetpointCall(BaseBattery, None, Zero, E, ConstBlockRows(T, fc, idx), Some(3)) :
        E \in {Q(3), Frac(19, 2)}, T \in DayAheadPowers, fc \in FcValues, idx \in Rows}
    \cup {SetpointCall(ConfigBattery, None, Zero, ConfigBattery.soc_min_kwh,
                       ConstBlockRows(4000, 0, idx), Some(3)) : idx \in Rows}

\* Calls on the small battery, and the call of the terminal-bias scenario
\* on the battery of src/config.py (SOC at soc_max, 50 steps left).
SetpointCalls ==
    {SetpointCall(BaseBattery, st, tw, E, ConstBlockRows(T, 0, idx), rem) :
        st \in {None, Some(BaseBattery.soc_terminal_kwh)}, tw \in {Zero, Half},
        E \in {Q(2), Q(6), Q(10)}, T \in DayAheadPowers, idx \in {0, 2},
        rem \in RemainingStepsArgs}
    \cup {SetpointCall(ConfigBattery, Some(ConfigBattery.soc_terminal_kwh), Half,
                       Q(90000), ConstBlockRows(40000, 40000, 0), Some(50))}

\* One call of compute_current_setpoint on the arguments drawn at Init;
\* p_des_avg_kw is the local of that name before the ramp and the clamps.
CallSetpoint ==
    /\ ctrl_call # None
    /\ ctrl_call[1].p_kw = None
    /\ LET c == ctrl_call[1]
       IN  ctrl_call' =
               Some([c EXCEPT
                   !.p_des_avg_kw =
                       Some(p_des_avg_kw(c.self, c.E_kwh, c.block_rows,
                                         c.remaining_steps_day)),
                   !.p_kw =
                       Some(BlockEnergyMPC_compute_current_setpoint(c.self, c.E_kwh,
                                c.soc_min_kwh, c.soc_max_kwh, c.last_p_kw,
                                c.block_rows, c.remaining_steps_day))])
    /\ UNCHANGED <<loop_vars, tariff, step_call>>

InitSetpoint ==
    /\ InitLoopVars({MakeConfig(FALSE, None, Zero, Q(8), 0)}, {[u \in {0} |-> 4]})
    /\ tariff = TariffIdle
    /\ \E c \in SetpointCalls \cup RampedSetpointCalls \cup SocClampedCalls
                  \cup LimitEdgeCalls :
          ctrl_call = Some(c)
    /\ step_call = None

NextSetpoint == CallSetpoint

SpecSetpoint == InitSetpoint /\ [][NextSetpoint]_vars

SetpointDone == ctrl_call # None /\ ctrl_call[1].p_kw # None

\* The even allocation of the call: E_bess_needed / (remaining_steps_block * dt_h).
EvenAllocationOfCall ==
    LET c == ctrl_call[1]
        rows == {j \in Rows : j >= c.block_rows.current_index}
        E_solar == RMul(SumOver(c.block_rows.solar_forecast_kw, rows), c.self.dt_hours)
    IN  RDiv(RSub(c.block_rows.E_target_kwh[0], E_solar),
             RMul(Q(Cardinality(rows)), c.self.dt_hours))

\* What the call added to the even allocation.
BiasOfCall == RSub(ctrl_call[1].p_des_avg_kw[1], EvenAllocationOfCall)

\* C18: the terminal-SOC bias terminal_weight * (E - soc_terminal) /
\* (remaining_steps_day * dt_h) is added to p_des if and only if soc_terminal
\* is set, terminal_weight > 0 and remaining_steps_day > 0; for
\* remaining_steps_day <= 0 or missing no bias is added and p_des is the
\* plain even allocation.
C18_BiasCondition ==
    SetpointDone =>
        LET c == ctrl_call[1]
        IN  IF /\ c.self.soc_terminal_kwh # None
               /\ RLt(Zero, c.self.terminal_weight)
               /\ c.remaining_steps_day # None
               /\ c.remaining_steps_day[1] > 0
            THEN BiasOfCall =
                     RMul(c.self.terminal_weight,
                          RDiv(RSub(c.E_kwh, c.self.soc_terminal_kwh[1]),
                               RMul(Q(c.remaining_steps_day[1]), c.self.dt_hours)))
            ELSE BiasOfCall = Zero

\* The call of the terminal-bias scenario: energy_kwh = 90,000, soc_terminal
\* = 50,000, remaining_steps_day = 50, terminal_weight = 0.5, 5-minute step.
TerminalBiasScenario ==
    /\ SetpointDone
    /\ ctrl_call[1].E_kwh = Q(90000)
    /\ ctrl_call[1].self.soc_terminal_kwh = Some(Q(50000))
    /\ ctrl_call[1].remaining_steps_day = Some(50)
    /\ ctrl_call[1].self.terminal_weight = Half
    /\ ctrl_call[1].self.dt_hours = Frac(5, 60)

\* C19 as stated: in the terminal-bias scenario the bias the heuristic adds
\* to the desired power is 9,600 kW.
C19_TerminalBiasValue ==
    TerminalBiasScenario => BiasOfCall = Q(9600)

\* C19 amended: in the terminal-bias scenario the bias the heuristic adds to
\* the desired power is 0.5 * 40,000 / (50 * 1/12) = 4,800 kW (positive,
\* toward discharging).
C19_TerminalBiasValueAmended ==
    TerminalBiasScenario => BiasOfCall = Q(4800)

\* C19 witness: the call of the scenario was made and added a positive bias
\* to an even allocation of 0 kW.
C19_Witness ==
    /\ TerminalBiasScenario
    /\ EvenAllocationOfCall = Zero
    /\ RLt(Zero, ctrl_call[1].p_des_avg_kw[1])

-----------------------------------------------------------------------------
(* SpecInvalid: the loop built from a configuration whose battery          *)
(* parameters are invalid.  BatteryParams is a plain dataclass and neither *)
(* BatteryState, RealTimeEMS.__init__ nor the controllers' constructors    *)
(* test the parameters, so construction succeeds and the loop starts.      *)

InvalidBattery(b) ==
    \/ RLe(b.eta_charge, Zero)
    \/ RLe(b.eta_discharge, Zero)
    \/ RLt(b.soc_max_kwh, b.soc_min_kwh)

InvalidConfigs ==
    LET base(use_qp) == MakeConfig(use_qp, None, Half, BaseBattery.soc_terminal_kwh, 0)
    IN  {[base(q) EXCEPT !.battery.soc_min_kwh = BaseBattery.soc_max_kwh,
                         !.battery.soc_max_kwh = BaseBattery.soc_min_kwh] :
            q \in BOOLEAN}
        \cup {[base(FALSE) EXCEPT !.battery.eta_charge = RNeg(Half)],
              [base(FALSE) EXCEPT !.battery.eta_discharge = RNeg(Half)]}

InitInvalid == InitLoop(InvalidConfigs, DayAheadFiles(2))

NextInvalid ==
    \E fc \in ConstForecastFiles, act \in ActualFiles : LoopIteration(fc, act, "none")

SpecInvalid == InitInvalid /\ [][NextInvalid]_vars

\* C20: an invalid battery configuration (eta_charge <= 0, eta_discharge <=
\* 0, or soc_min > soc_max) is detected when the parameters, the state or the
\* control loop are constructed and is fatal at startup, so no tick ever
\* runs with such parameters: in particular no tick commits a battery step.
C20_InvalidConfigFatal ==
    InvalidBattery(CONFIG.battery) => \A i \in TickIdx : ~ticks[i].stepped

-----------------------------------------------------------------------------
(* SpecOffGrid: the loop started at a day_start on or off the 5-minute     *)
(* grid of the block rows, under either controller, with files present or  *)
(* missing and readings or the log append failing.                         *)

OffGridConfigs ==
    {MakeConfig(q, None, Half, Q(8), d) : q \in BOOLEAN, d \in {7, 12}}
    \cup {MakeConfig(FALSE, None, Zero, Q(8), d) : d \in {0, 10}}

InitOffGrid == InitLoop(OffGridConfigs, DayAheadFiles(2))

NextOffGrid ==
    \E fc \in ConstForecastFiles, act \in ActualFiles, fault \in {"none", "read", "log"} :
        LoopIteration(fc, act, fault)

SpecOffGrid == InitOffGrid /\ [][NextOffGrid]_vars

\* Tick i was called at a t_now that is none of block_start, block_start+5
\* and block_start+10 of its 15-minute block.
OffGridTick(i) ==
    ticks[i].t \notin {floor_to_15min(ticks[i].t) + k * dt_minutes_rtu : k \in Rows}

\* C21: tick(t_now) with t_now not equal to block_start, block_start+5min or
\* block_start+10min of its block fails before the controller is invoked,
\* commits no battery step and emits no log row.
C21_MisalignedTickFails ==
    \A i \in TickIdx :
        OffGridTick(i) =>
            /\ ticks[i].error # "none"
            /\ ticks[i].sol = None /\ ticks[i].p_kw = None
            /\ ~ticks[i].stepped
            /\ ticks[i].after = ticks[i].before
            /\ \A j \in 1 .. Len(out_csv) : out_csv[j].timestamp # ticks[i].t

\* C21 witness: an off-grid tick whose block had a day-ahead target and
\* whose readings succeeded, stopped by the current-index resolution.
C21_Witness ==
    \E i \in TickIdx : OffGridTick(i) /\ ticks[i].error = "misaligned"

\* The energy BatteryState.step would leave after a step at p from the
\* energy of the call.
NextEnergyOfCall(p) ==
    LET c == ctrl_call[1]
    IN  IF RLe(Zero, p)
        THEN RSub(c.E_kwh, RDiv(RMul(p, c.self.dt_hours), c.self.eta_d))
        ELSE RSub(c.E_kwh, RMul(RMul(p, c.self.dt_hours), c.self.eta_c))

\* Neither the power limits nor the SOC bounds bind at setpoint p.
NoLimitBindsAt(p) ==
    LET c == ctrl_call[1]
    IN  /\ RLe(RNeg(c.self.p_ch_max), p) /\ RLe(p, c.self.p_dis_max)
        /\ RLe(c.soc_min_kwh, NextEnergyOfCall(p))
        /\ RLe(NextEnergyOfCall(p), c.soc_max_kwh)

\* C22: when the desired power exceeds last_p_kw + ramp and no power or SOC
\* limit binds there, the heuristic returns exactly last_p_kw + ramp; with
\* last_p_kw = 0, ramp = 2000 and ample SOC, a desired power of 10,000 kW or
\* 25,000 kW yields p_kw = 2000.
C22_RampLimitedStart ==
    SetpointDone =>
        LET c == ctrl_call[1]
        IN  ( /\ c.self.ramp # None
              /\ RLt(RAdd(c.last_p_kw, c.self.ramp[1]), c.p_des_avg_kw[1])
              /\ NoLimitBindsAt(RAdd(c.last_p_kw, c.self.ramp[1])) )
            => c.p_kw[1] = RAdd(c.last_p_kw, c.self.ramp[1])

\* C22 witness: from rest with ramp 2000 and a desired power of 10,000 kW the
\* call returned 2000 kW.
C22_Witness ==
    /\ SetpointDone
    /\ ctrl_call[1].last_p_kw = Zero
    /\ ctrl_call[1].self.ramp = Some(Q(2000))
    /\ ctrl_call[1].p_des_avg_kw = Some(Q(10000))
    /\ ctrl_call[1].p_kw = Some(Q(2000))

\* The setpoint of the call after the ramp and power clamps, before the SOC
\* bounds.
BeforeSocBoundsOfCall ==
    LET c == ctrl_call[1]
    IN  apply_power_limits(c.self, apply_ramp(c.self, c.p_des_avg_kw[1], c.last_p_kw))

\* The general rule of C23: a discharge p that would take the next SOC below
\* soc_min becomes min(p, max(0, (energy_kwh - soc_min) * eta_discharge /
\* dt_h)), which lands on soc_min, and a charge that would pass soc_max
\* becomes max(p, min(0, (energy_kwh - soc_max) / (dt_h * eta_charge))),
\* which lands on soc_max.
SocClampRule ==
    LET c == ctrl_call[1]
        p == BeforeSocBoundsOfCall
        p_dis == RMax(Zero, RDiv(RMul(RSub(c.E_kwh, c.soc_min_kwh), c.self.eta_d),
                                 c.self.dt_hours))
        p_ch == RMin(Zero, RDiv(RSub(c.E_kwh, c.soc_max_kwh),
                                RMul(c.self.dt_hours, c.self.eta_c)))
    IN  /\ (RLe(Zero, p) /\ RLt(NextEnergyOfCall(p), c.soc_min_kwh)) =>
               /\ c.p_kw[1] = RMin(p, p_dis)
               /\ NextEnergyOfCall(c.p_kw[1]) = c.soc_min_kwh
        /\ (RLt(p, Zero) /\ RLt(c.soc_max_kwh, NextEnergyOfCall(p))) =>
               /\ c.p_kw[1] = RMax(p, p_ch)
               /\ NextEnergyOfCall(c.p_kw[1]) = c.soc_max_kwh

\* The call is made from rest at soc_min with forecast 0 at every substep and
\* a positive target.
EmptyBatteryScenario ==
    LET c == ctrl_call[1]
    IN  /\ c.E_kwh = c.soc_min_kwh
        /\ \A j \in Rows : c.block_rows.solar_forecast_kw[j] = Zero
        /\ RLt(Zero, c.block_rows.E_target_kwh[0])
        /\ c.last_p_kw = Zero

\* C23 as stated: when a discharge p would take the next SOC below soc_min the
\* heuristic returns min(p, max(0, (energy_kwh - soc_min) * eta_discharge /
\* dt_h)), the largest setpoint whose next SOC is at least soc_min, and
\* symmetrically max(p, min(0, (energy_kwh - soc_max) / (dt_h * eta_charge)))
\* for a charge that would pass soc_max; with energy_kwh = soc_min, forecast 0
\* and a positive target the controller returns 0.
C23_SocClampedSetpoint ==
    SetpointDone =>
        /\ SocClampRule
        /\ EmptyBatteryScenario => ctrl_call[1].p_kw[1] = Zero

\* C23 amended: the general rule as stated; and with energy_kwh = soc_min,
\* forecast 0 at every substep, a positive target and a desired power that is
\* not a charge (the terminal-SOC bias off, or smaller than the even
\* allocation), the controller returns 0.
C23_SocClampedSetpointAmended ==
    SetpointDone =>
        /\ SocClampRule
        /\ (EmptyBatteryScenario /\ RLe(Zero, ctrl_call[1].p_des_avg_kw[1])) =>
               ctrl_call[1].p_kw[1] = Zero

\* C23 witness: at soc_min with forecast 0 and E_target = 1000 kWh the desired
\* discharge was cut to 0.
C23_Witness ==
    /\ SetpointDone
    /\ ctrl_call[1].E_kwh = ctrl_call[1].soc_min_kwh
    /\ ctrl_call[1].block_rows.E_target_kwh[0] = Q(1000)
    /\ RLt(Zero, BeforeSocBoundsOfCall)
    /\ ctrl_call[1].p_kw = Some(Zero)

\* The k of the round trip: E_target = k * dt_h * n_future.
RoundTripK ==
    LET c == ctrl_call[1]
        n_future == Cardinality({j \in Rows : j >= c.block_rows.current_index})
    IN  RDiv(c.block_rows.E_target_kwh[0], RMul(c.self.dt_hours, Q(n_future)))

\* The call has zero solar forecast at every substep, last_p_kw = 0 and a SOC
\* that a step at k leaves within its bounds.
RoundTripCall ==
    LET c == ctrl_call[1]
    IN  /\ SetpointDone
        /\ \A j \in Rows : c.block_rows.solar_forecast_kw[j] = Zero
        /\ c.last_p_kw = Zero
        /\ RLe(c.soc_min_kwh, NextEnergyOfCall(RoundTripK))
        /\ RLe(NextEnergyOfCall(RoundTripK), c.soc_max_kwh)

\* C24 as stated: with zero solar forecast at every substep, last_p_kw = 0,
\* ample SOC and E_target = k * dt_h * n_future, the heuristic returns p_kw =
\* k, for every k and every current substep.
C24_AllocationRoundTrip ==
    RoundTripCall => ctrl_call[1].p_kw[1] = RoundTripK

\* C24 amended: with zero solar forecast at every substep, last_p_kw = 0,
\* ample SOC, no terminal-SOC bias (soc_terminal unset or terminal_weight 0)
\* and E_target = k * dt_h * n_future, the heuristic returns p_kw = k for
\* every k within the power limits and, when a ramp limit is configured,
\* within the ramp band |k| <= ramp, at every current substep.
C24_AllocationRoundTripAmended ==
    LET c == ctrl_call[1]
    IN  ( /\ RoundTripCall
          /\ c.self.soc_terminal_kwh = None \/ c.self.terminal_weight = Zero
          /\ RLe(RNeg(c.self.p_ch_max), RoundTripK) /\ RLe(RoundTripK, c.self.p_dis_max)
          /\ c.self.ramp # None => RLe(RAbs(RoundTripK), c.self.ramp[1]) )
        => c.p_kw[1] = RoundTripK

\* C24 witness: a call at the last substep (n_future = 1) with E_target = 12
\* kW * dt_h * 1 returned 12 kW.
C24_Witness ==
    /\ RoundTripCall
    /\ ctrl_call[1].block_rows.current_index = 2
    /\ RoundTripK = Q(12)
    /\ ctrl_call[1].p_kw = Some(Q(12))

-----------------------------------------------------------------------------
(* SpecStep: BatteryState.step called directly, from the same state, with  *)
(* the setpoints a, b and a + b, setpoints beyond the power limits and      *)
(* steps that leave the SOC range included.                                *)

StepPowers == {-48, -24, -12, 0, 12, 24, 48}

StepBatteries ==
    {[BaseBattery EXCEPT !.eta_charge = e, !.eta_discharge = e] @@ [soc_init_kwh |-> E] :
        e \in {Half, Frac(19, 20)}, E \in {Q(2), Q(6), Q(10)}}

BatteryStepCalls ==
    /\ step_call # None
    /\ step_call[1].after = None
    /\ LET c == step_call[1]
           st0 == BatteryState_init(c.params)
       IN  step_call' =
               Some([c EXCEPT !.after =
                   Some([a |-> step(c.params, st0, Q(c.a), dt_minutes_rtu),
                         b |-> step(c.params, st0, Q(c.b), dt_minutes_rtu),
                         ab |-> step(c.params, st0, Q(c.a + c.b), dt_minutes_rtu)])])
    /\ UNCHANGED <<loop_vars, tariff, ctrl_call>>

InitStep ==
    /\ InitLoopVars({MakeConfig(FALSE, None, Zero, Q(8), 0)}, {[u \in {0} |-> 4]})
    /\ tariff = TariffIdle
    /\ ctrl_call = None
    /\ \E params \in StepBatteries, a \in StepPowers, b \in StepPowers :
          step_call = Some([params |-> params, a |-> a, b |-> b, after |-> None])

NextStep == BatteryStepCalls

SpecStep == InitStep /\ [][NextStep]_vars

StepDone == step_call # None /\ step_call[1].after # None

\* The energy change -dt_h * p / eta_discharge for p >= 0 and
\* -dt_h * p * eta_charge for p < 0.
ClaimedEnergyChange(params, p) ==
    IF p >= 0
    THEN RNeg(RDiv(RMul(Frac(dt_minutes_rtu, 60), Q(p)), params.eta_discharge))
    ELSE RNeg(RMul(RMul(Frac(dt_minutes_rtu, 60), Q(p)), params.eta_charge))

\* C25: step(p, dt) changes energy_kwh by -dt_h * p / eta_discharge when
\* p >= 0 and by -dt_h * p * eta_charge when p < 0, sets last_p_kw = p and
\* clips neither the setpoint nor the energy; for a and b of the same sign
\* the energy change of step(a + b) is the sum of the energy changes of
\* step(a) and step(b).
C25_BatteryStep ==
    StepDone =>
        LET c == step_call[1]
            E0 == c.params.soc_init_kwh
            dE(st) == RSub(st.energy_kwh, E0)
        IN  /\ dE(c.after[1].a) = ClaimedEnergyChange(c.params, c.a)
            /\ dE(c.after[1].b) = ClaimedEnergyChange(c.params, c.b)
            /\ dE(c.after[1].ab) = ClaimedEnergyChange(c.params, c.a + c.b)
            /\ c.after[1].a.last_p_kw = Q(c.a)
            /\ c.after[1].b.last_p_kw = Q(c.b)
            /\ c.after[1].ab.last_p_kw = Q(c.a + c.b)
            /\ ((c.a >= 0 /\ c.b >= 0) \/ (c.a <= 0 /\ c.b <= 0)) =>
                   dE(c.after[1].ab) = RAdd(dE(c.after[1].a), dE(c.after[1].b))

\* C25 witness: two discharges whose sum is beyond p_discharge_max and takes
\* the energy below soc_min, stepped unclipped.
C25_Witness ==
    /\ StepDone
    /\ step_call[1].a > 0 /\ step_call[1].b > 0
    /\ RLt(step_call[1].params.p_discharge_max_kw, step_call[1].after[1].ab.last_p_kw)
    /\ RLt(step_call[1].after[1].ab.energy_kwh, step_call[1].params.soc_min_kwh)

-----------------------------------------------------------------------------
\* Tick i was called at a t_now on the 5-minute grid and built its block
\* frame.
FramedTick(i) == ticks[i].t % dt_minutes_rtu = 0 /\ ticks[i].br # None

\* C26: for every tick at a t_now on the 5-minute grid, block_start =
\* floor_to_15min(t_now), the frame has exactly the three substeps 0, 1, 2 at
\* offsets 0, 5 and 10 minutes, current_index = (t_now - block_start) / 5 min,
\* the past set is the substeps below current_index and n_future = 3 -
\* current_index >= 1.
C26_BlockFrameIndexing ==
    \A i \in TickIdx :
        FramedTick(i) =>
            LET br == ticks[i].br[1]
                block_start == (ticks[i].t \div 15) * 15
                idx == (ticks[i].t - block_start) \div 5
            IN  /\ floor_to_15min(ticks[i].t) = block_start
                /\ DOMAIN br.substeps = 0 .. 2
                /\ \A j \in 0 .. 2 :
                      br.substeps[j] = j /\ br.timestamps[j] = block_start + 5 * j
                /\ br.current_index = idx
                /\ past_rows(br) = {j \in 0 .. 2 : j < idx}
                /\ Cardinality(future_rows(br)) = 3 - idx
                /\ 3 - idx >= 1

\* C26 witness: a tick at block_start + 10 min with current_index = 2, a past
\* set of two substeps and n_future = 1, after a tick at block_start with an
\* empty past set.
C26_Witness ==
    \E i \in TickIdx, k \in TickIdx :
        /\ FramedTick(i) /\ FramedTick(k)
        /\ ticks[i].t = floor_to_15min(ticks[i].t) + 10
        /\ ticks[i].br[1].current_index = 2
        /\ Cardinality(future_rows(ticks[i].br[1])) = 1
        /\ ticks[k].t = floor_to_15min(ticks[k].t)
        /\ past_rows(ticks[k].br[1]) = {}

-----------------------------------------------------------------------------
(* SpecLoopFair: main's loop with ticks that succeed and ticks that raise  *)
(* (unreadable file, no day-ahead target, t_now off the block rows, failed *)
(* log append), in the runs in which main keeps running: the while loop    *)
(* takes its next iteration whenever its condition holds (the body has no  *)
(* blocking call; a raising tick lands in the except branch).              *)

LoopConfigs == {MakeConfig(FALSE, None, Zero, Q(8), d) : d \in {0, 10, 12}}

InitLoopFair == InitLoop(LoopConfigs, DayAheadFiles(2))

NextLoopFair ==
    \E fc \in {None, Some([k \in 0 .. 2 |-> 24])}, fault \in {"none", "read", "log"} :
        LoopIteration(fc, None, fault)

SpecLoopFair == InitLoopFair /\ [][NextLoopFair]_vars /\ WF_vars(NextLoopFair)

\* The ticks attempted so far are those of day_start, day_start + 5 min, ...
\* in this order, one each, and t_now is the timestamp after the last.
OneTickPerTimestamp ==
    /\ \A i \in TickIdx : ticks[i].t = CONFIG.day_start + (i - 1) * dt_minutes_rtu
    /\ t_now = CONFIG.day_start + Len(ticks) * dt_minutes_rtu
    /\ \A i \in TickIdx : ticks[i].t <= CONFIG.day_end

\* The loop has ended: t_now is beyond day_end and every timestamp from
\* day_start through day_end was attempted.
LoopEnded ==
    /\ t_now > CONFIG.day_end
    /\ {ticks[i].t : i \in TickIdx} =
           {t \in CONFIG.day_start .. CONFIG.day_end :
               (t - CONFIG.day_start) % dt_minutes_rtu = 0}

\* C27: the outer loop attempts exactly one tick for each 5-minute timestamp
\* from day_start through day_end inclusive, in strictly increasing order,
\* advances t_now by dt_minutes_rtu whether the tick succeeded or raised, and
\* terminates once t_now exceeds day_end.
C27_LoopSchedule == []OneTickPerTimestamp /\ <>[]LoopEnded

\* C27 witness: the loop has ended after a tick that failed before the
\* controller was followed by a committed tick at the next timestamp.
C27_Witness ==
    /\ LoopEnded
    /\ \E i \in TickIdx :
          /\ i + 1 \in TickIdx
          /\ ticks[i].error \in {"read", "no_day_ahead", "misaligned"}
          /\ ticks[i + 1].stepped
          /\ ticks[i + 1].t = ticks[i].t + dt_minutes_rtu

(***************************************************************************)
(* The QP's model of the first move against the committed battery step.    *)
(***************************************************************************)

\* Tick i committed the first move of a QP solution.
QPCommitted(i) ==
    /\ CONFIG.use_qp
    /\ ticks[i].stepped
    /\ ~ticks[i].sol[1].fallback

\* E[1] of the solution of tick i: the SOC recursion of the QP applied to E0
\* = the energy before the tick.
QPPredictedEnergy(i) ==
    LET self == RealTimeEMS_ctrl(CONFIG)
        s == ticks[i].sol[1]
    IN  RAdd(RSub(ticks[i].before.energy_kwh, RMul(self.dt_h, RDiv(s.p_pos, self.eta_d))),
             RMul(self.dt_h, RMul(s.p_neg, self.eta_c)))

\* C28: for every QP solution a tick committed, the SOC the QP predicts
\* after its first move, E0 - dt_h * p_pos[0] / eta_discharge + dt_h *
\* p_neg[0] * eta_charge, equals the energy_kwh BatteryState.step committed
\* for the net setpoint p_pos[0] - p_neg[0].
C28_QPModelMatchesStep ==
    \A i \in TickIdx :
        QPCommitted(i) => ticks[i].after.energy_kwh = QPPredictedEnergy(i)

-----------------------------------------------------------------------------
(* src/io/data_loader.py build_tracking_frame and                          *)
(* src/simulation/simulator.py run_day_with_block_energy_mpc               *)

\* build_tracking_frame: one row per 5-minute timestamp from the first to
\* the last forecast row.  df15r: the day-ahead rows (timestamp -> kW);
\* df5_forecast: timestamp -> kW; df5_actual: None, or <<a>> with a a
\* function timestamp -> kW on the timestamps the file has.
build_tracking_frame(df15r, df5_forecast, df5_actual, dt5_min) ==
    LET dfE == asfreq_15min_pad(df15r)
        start_ts == MinOf(DOMAIN df5_forecast)
        end_ts == MaxOf(DOMAIN df5_forecast)
        full5 == {u \in start_ts .. end_ts : (u - start_ts) % dt5_min = 0}
    IN  [u \in full5 |->
            LET block_start == floor_to_15min(u)
                has_act == df5_actual # None /\ u \in DOMAIN df5_actual[1]
            IN  [timestamp |-> u,
                 block_start |-> block_start,
                 block_end |-> block_start + 15,
                 substep_in_block |-> ((u - block_start) * 60) \div (dt5_min * 60),
                 E_target_kwh |-> IF block_start \in DOMAIN dfE
                                  THEN Some(RMul(Q(dfE[block_start]), Frac(1, 4)))
                                  ELSE NaN,
                 solar_forecast_kw |-> IF u \in DOMAIN df5_forecast
                                       THEN RMax(df5_forecast[u], Zero)
                                       ELSE Zero,
                 solar_actual_kw |-> IF has_act THEN Some(df5_actual[1][u]) ELSE NaN,
                 actual_available |-> has_act]]

\* The rows of df_tracking in the block of the row at cur_ts, ordered by
\* substep, as the arrays the simulator hands to the controller.  The arrays
\* are indexed 0 .. n-1 for the n rows the frame has in the block.
simulator_block_rows(df_tracking, cur_ts) ==
    LET cur_block_start == df_tracking[cur_ts].block_start
        in_block == {u \in DOMAIN df_tracking : df_tracking[u].block_start = cur_block_start}
        n == Cardinality(in_block)
        at(j) == CHOOSE u \in in_block : Cardinality({v \in in_block : v < u}) = j
    IN  [timestamps |-> [j \in 0 .. n - 1 |-> at(j)],
         substeps |-> [j \in 0 .. n - 1 |-> df_tracking[at(j)].substep_in_block],
         E_target_kwh |-> [j \in 0 .. n - 1 |-> df_tracking[at(j)].E_target_kwh[1]],
         solar_forecast_kw |-> [j \in 0 .. n - 1 |-> df_tracking[at(j)].solar_forecast_kw],
         solar_actual_kw |-> [j \in 0 .. n - 1 |-> df_tracking[at(j)].solar_actual_kw],
         actual_available |-> [j \in 0 .. n - 1 |-> df_tracking[at(j)].actual_available],
         current_index |-> Cardinality({v \in in_block : v < cur_ts})]

\* The setpoints the simulator's controller may return at row i of the
\* frame (remaining_steps_day = len(df_tracking) - i).
simulator_setpoints(cfg, st, br, remaining) ==
    LET batt == cfg.battery
        ctrl == RealTimeEMS_ctrl(cfg)
        target_power_kw_block == RDiv(br.E_target_kwh[br.current_index], Frac(1, 4))
    IN  IF cfg.use_qp
        THEN {sol.p_kw : sol \in QPBlockEnergyMPC_compute_current_setpoint(ctrl,
                 st.energy_kwh, batt.soc_min_kwh, batt.soc_max_kwh, st.last_p_kw, br,
                 Some(remaining), target_power_kw_block)}
        ELSE {BlockEnergyMPC_compute_current_setpoint(ctrl, st.energy_kwh,
                  batt.soc_min_kwh, batt.soc_max_kwh, st.last_p_kw, br, Some(remaining))}

\* The for loop of run_day_with_block_energy_mpc from row i on, with the
\* battery state st and the result rows acc so far: the result frames the
\* run can return (one per choice of the solver among equal minimisers).
RECURSIVE simulator_loop(_, _, _, _, _)
simulator_loop(cfg, df_tracking, i, st, acc) ==
    LET len == Cardinality(DOMAIN df_tracking)
        cur_ts == MinOf(DOMAIN df_tracking) + i * dt_minutes_rtu
        row == df_tracking[cur_ts]
        br == simulator_block_rows(df_tracking, cur_ts)
    IN  IF i >= len THEN {acc}
        ELSE UNION {
                 LET st2 == step(cfg.battery, st, p_kw, dt_minutes_rtu)
                 IN  simulator_loop(cfg, df_tracking, i + 1, st2,
                         Append(acc,
                             [timestamp |-> cur_ts,
                              block_start |-> row.block_start,
                              substep_in_block |-> row.substep_in_block,
                              E_target_kwh |-> row.E_target_kwh[1],
                              target_power_kw |-> RDiv(row.E_target_kwh[1], Frac(1, 4)),
                              solar_forecast_kw |-> row.solar_forecast_kw,
                              solar_actual_kw |-> row.solar_actual_kw,
                              actual_available |-> row.actual_available,
                              battery_power_kw |-> p_kw,
                              grid_output_kw |-> RAdd(row.solar_forecast_kw, p_kw),
                              soc_kwh |-> st2.energy_kwh]))
                 : p_kw \in simulator_setpoints(cfg, st, br, len - i)}

run_day_with_block_energy_mpc(cfg, df_tracking) ==
    simulator_loop(cfg, df_tracking, 0, BatteryState_init(cfg.battery), << >>)

\* Every iteration of the day has run, and every tick returned its row.
DayCompleted ==
    /\ t_now > CONFIG.day_end
    /\ \A i \in TickIdx : ticks[i].error = "none"

\* The 5-minute forecast series the ticks of the day read: the forecast of
\* each tick's own timestamp.
ForecastSeries == [t \in {ticks[i].t : i \in TickIdx} |->
                      LET i == CHOOSE j \in TickIdx : ticks[j].t = t
                      IN  results[i].solar_forecast_kw]

\* The actual series the ticks read: the timestamps that had an actual.
ActualSeries ==
    LET have == {i \in TickIdx : results[i].actual_available}
    IN  IF have = {} THEN None
        ELSE Some([t \in {ticks[i].t : i \in have} |->
                      LET i == CHOOSE j \in have : ticks[j].t = t
                      IN  results[i].solar_actual_kw[1]])

\* All ticks read one forecast series: what a tick saw for a later timestamp
\* of its block is what the tick at that timestamp saw.
OneForecastSeries ==
    \A i \in TickIdx : \A j \in Rows :
        LET br == ticks[i].br[1]
        IN  (br.timestamps[j] >= ticks[i].t /\ br.timestamps[j] \in DOMAIN ForecastSeries)
                => br.solar_forecast_kw[j] = ForecastSeries[br.timestamps[j]]

\* The day is made of whole 15-minute blocks.
WholeBlocks ==
    /\ CONFIG.day_start % 15 = 0
    /\ Len(ticks) % 3 = 0

\* The result frames of the batch simulator on the frame built from the
\* loop's day-ahead rows and the series its ticks read.
BatchResults ==
    run_day_with_block_energy_mpc(CONFIG,
        build_tracking_frame(df15, ForecastSeries, ActualSeries, dt_minutes_rtu))

\* C29: for the same day-ahead targets, forecast and actual series, battery
\* parameters and controller, the batch simulator and the sequence of ticks
\* over the same timestamps produce the same battery_power_kw and soc_kwh at
\* every timestamp.
C29_BatchMatchesRealTime ==
    (DayCompleted /\ WholeBlocks /\ OneForecastSeries)
        => \E run \in BatchResults :
               /\ Len(run) = Len(results)
               /\ \A i \in TickIdx :
                      /\ run[i].timestamp = results[i].timestamp
                      /\ run[i].battery_power_kw = results[i].battery_power_kw
                      /\ run[i].soc_kwh = results[i].soc_kwh

(***************************************************************************)
(* The order of the heuristic's clamps: ramp, power limits, SOC bounds.    *)
(***************************************************************************)

\* The call's setpoint after _apply_ramp, before _apply_power_limits.
AfterRampOfCall ==
    LET c == ctrl_call[1]
    IN  apply_ramp(c.self, c.p_des_avg_kw[1], c.last_p_kw)

\* The call has a ramp limit, its last_p_kw lies within the power limits,
\* and its SOC-bound step left the setpoint unchanged.
ClampOrderingCase ==
    LET c == ctrl_call[1]
    IN  /\ SetpointDone
        /\ c.self.ramp # None
        /\ RLe(RNeg(c.self.p_ch_max), c.last_p_kw)
        /\ RLe(c.last_p_kw, c.self.p_dis_max)
        /\ c.p_kw[1] = BeforeSocBoundsOfCall

\* C30: whenever last_p_kw lies within [-p_charge_max, p_discharge_max] and
\* the SOC-bound step leaves the setpoint unchanged, the returned p_kw
\* satisfies |p_kw - last_p_kw| <= ramp: the power-limit clamp applied after
\* the ramp clamp never moves the setpoint outside the ramp band.
C30_ClampOrdering ==
    ClampOrderingCase =>
        RLe(RAbs(RSub(ctrl_call[1].p_kw[1], ctrl_call[1].last_p_kw)),
            ctrl_call[1].self.ramp[1])

\* C30 witness: a call in the claim's case whose ramp clamp left the setpoint
\* beyond the discharge limit, so that the power-limit clamp moved it (back
\* to the limit, where last_p_kw was).
C30_Witness ==
    /\ ClampOrderingCase
    /\ RLt(ctrl_call[1].self.p_dis_max, AfterRampOfCall)
    /\ ctrl_call[1].p_kw[1] = ctrl_call[1].self.p_dis_max
    /\ ctrl_call[1].p_kw[1] # AfterRampOfCall

=============================================================================
